---- MODULE Spec2Model ----
(***************************************************************************)
(* Model of the regtest fixture generator: the node-process lifecycle      *)
(* manager (generator/dashd_manager.py), the generation workflow and the   *)
(* phased block generation of WalletSyncGenerator (generate.py).           *)
(***************************************************************************)
EXTENDS Integers, Sequences, FiniteSets, TLC

VARIABLES
    \* boundary-scheduler harness
    sched_pc,        \* position of the harness
    sched_current,   \* argument current_height of _calculate_batch_boundaries
    sched_target,    \* argument target of _calculate_batch_boundaries
    sched_result,    \* the list it returned
    \* port-search harness
    ffp_pc,          \* position of the harness
    ffp_start,       \* argument start_port of find_free_port
    ffp_n,           \* argument max_attempts of find_free_port
    ffp_result,      \* the port it returned, NoPort when it raised
    \* run configuration and environment
    target,          \* Config.target_blocks
    keep_temp,       \* Generator.keep_temp (--keep-temp)
    faulty,          \* whether the node, the file system and the user may fail this run
    wallet_faults,   \* whether the node may reject the wallet set-up commands this run
    existing,        \* output_base/regtest-<target> as the run finds it
    draws,           \* whether random.random() may come out below 0.01 this run
    caller,          \* who calls start() and stop(): "generate" or "client"
    requested_port,  \* DashdManager.requested_port, 0 for None
    taken,           \* loopback ports other processes of the host hold bound
    \* fields and locals of DashdManager.start() and _wait_for_ready()
    actual_port,     \* DashdManager.actual_port, 0 for None
    p2p_port,        \* DashdManager.p2p_port, 0 for None
    launch_port,     \* the -rpcport argument the process was launched with
    ret_port,        \* the port start() returned, 0 before
    elapsed,         \* time.time() - start_time, in sleep intervals of 0.5 s
    polled,          \* process.poll() was called in the current loop iteration
    observed_exit,   \* process.poll() has returned an exit code
    post_exit_ops,   \* liveness calls and sleeps made after observed_exit
    wait_result,     \* how _wait_for_ready ended: "ready", "exited", "timeout"
    start_error,     \* the exception start() raised
    start_calls,     \* number of start() calls made
    \* effects on the operating system
    signals,         \* number of terminate() and kill() calls made
    sockets,         \* ports this program holds bound
    probes,          \* number of port probes made by start()
    \* DashdManager and the operating system
    mgr,             \* Generator.dashd_manager is not None
    process,         \* DashdManager.process is not None
    proc_alive,      \* the launched dashd process is running
    launched,        \* number of dashd processes launched by the run
    temp_dir,        \* DashdManager.temp_dir is not None
    dir_exists,      \* the directory made by mkdtemp exists on disk
    dir_created,     \* mkdtemp has been called by this run
    should_cleanup,  \* DashdManager.should_cleanup
    atexit_reg,      \* atexit.register(self.stop) has been executed
    stop_ret,        \* who called stop() last with no start() call since, or "none"
    stop_calls,      \* number of stop() calls that have returned
    force_killed,    \* stop() had to kill() the process
    \* control of generate()
    pc,              \* position in generate() and its callees
    ip,              \* index of the next command of phases 1 to 5
    exc,             \* exception propagating out of the try body, or "none"
    outcome,         \* how generate() ended, "running" before
    exit_code,       \* the exit status of the interpreter, NoExit while it runs
    raised_at,       \* position at which the exception in exc was raised, or "none"
    failed_sites,    \* the steps whose command was rejected and the rejection absorbed
    \* the node's chain
    height,          \* getblockcount
    chain,           \* run-length list of <<address, count>>: who mined which blocks
    \* WalletSyncGenerator state and the locals of _phase_bulk_generation
    stats,           \* Generator.stats
    current_height,  \* local current_height
    batch_boundaries,\* local batch_boundaries
    scheduled,       \* what _calculate_batch_boundaries returned for this run
    boundary_addr_index,
    next_periodic_height,
    periodic_counter,
    pending,         \* snapshot list(batch_boundaries) still to be visited
    rest_end,        \* height the second mining call of a window branch mines to
    gen_start,       \* local current_height of _generate_blocks
    markers,         \* boundary-marker payments issued: <<boundary, height, index>>
    self_sends,      \* number of faucet self-payments drawn so far
    rpc_failures,    \* number of command rejections caught by except-RPCError blocks so far
    \* wallet set-up and payments
    reject_msg,      \* str(e).lower() of the RPCError a wallet set-up handler holds, or NoMsg
    derived,         \* number of addresses the node has derived for the pre-generation loop
    wallet_addresses,\* WalletSyncGenerator.wallet_addresses, position i + 1 for index i
    payments,        \* payments issued to the test wallet: index, address, amount, height
    output_dir,      \* output_base/regtest-<target>: whether it exists, and its files
    tx_commands,     \* transaction-creating commands of phases 2 to 6 the node accepted
    periodic_attempts, \* the periodic sends attempted so far: index, amount, node height
    consolidation    \* locals of the consolidation of phase 5: wallet_utxos, raw_tx, signed

schedVars == <<sched_pc, sched_current, sched_target, sched_result>>
ffpVars == <<ffp_pc, ffp_start, ffp_n, ffp_result>>
inputVars == <<target, keep_temp, faulty, wallet_faults, existing, draws, caller, requested_port,
               taken>>
\* what no step of a run changes
cfgVars == <<inputVars, schedVars, ffpVars>>
startVars == <<actual_port, p2p_port, launch_port, ret_port, elapsed, polled,
               observed_exit, post_exit_ops, wait_result, start_error, start_calls>>
osVars == <<signals, sockets, probes>>
histVars == <<raised_at, failed_sites>>
mgrVars == <<mgr, process, proc_alive, launched, temp_dir, dir_exists, dir_created,
             should_cleanup, atexit_reg, stop_ret, stop_calls, force_killed>>
ctlVars == <<pc, ip, exc, outcome>>
nodeVars == <<height, chain>>
bulkVars == <<current_height, batch_boundaries, scheduled, boundary_addr_index,
              next_periodic_height, periodic_counter, pending, rest_end>>
logVars == <<stats, markers, self_sends, rpc_failures, gen_start>>
mainVars == <<exit_code>>
exportVars == <<output_dir>>
txVars == <<tx_commands, periodic_attempts, consolidation>>
walletVars == <<reject_msg, derived, wallet_addresses, payments>>
runVars == <<inputVars, histVars, startVars, osVars, mgrVars, ctlVars, nodeVars, bulkVars,
             logVars, walletVars, exportVars, txVars, mainVars>>

vars == <<schedVars, ffpVars, runVars>>

----------------------------------------------------------------------------
(* Bounds of the model and constants of the program *)

\* filter batch size: "Boundaries are at every 5000 blocks"
FilterBatch == 5000

\* largest multiple of the filter batch the scheduler inputs are drawn around
MaxMult == 3

\* scheduler inputs: heights at, just below and just above the multiples of
\* the filter batch, and heights well inside a batch
HeightSamples ==
    { h \in { k * FilterBatch + d : k \in 0..MaxMult,
                                    d \in {-2, -1, 0, 1, 2, 187, 2500} } : h >= 0 }

----------------------------------------------------------------------------
(* Boundary scheduler: WalletSyncGenerator._calculate_batch_boundaries *)

\* the loop "for boundary in range(first_boundary, target + 1, 5000)" with its
\* filter, from the loop variable's current value on
RECURSIVE BoundaryLoop(_, _, _)
BoundaryLoop_off_by_one(boundary, cur, tgt) ==
    IF boundary >= tgt + 1 THEN <<>>
    ELSE (IF boundary - 1 >= cur /\ boundary - 1 < tgt
            THEN <<boundary - 1>> ELSE <<>>)
         \o BoundaryLoop(boundary + FilterBatch, cur, tgt)

BoundaryLoop_wrong_step(boundary, cur, tgt) ==
    IF boundary >= tgt + 1 THEN <<>>
    ELSE (IF boundary - 1 > cur /\ boundary - 1 < tgt
            THEN <<boundary - 1>> ELSE <<>>)
         \o BoundaryLoop(boundary - 1 + FilterBatch, cur, tgt)

BoundaryLoop_exclusive_target(boundary, cur, tgt) ==
    IF boundary >= tgt THEN <<>>
    ELSE (IF boundary - 1 > cur /\ boundary - 1 < tgt
            THEN <<boundary - 1>> ELSE <<>>)
         \o BoundaryLoop(boundary + FilterBatch, cur, tgt)

BoundaryLoop(boundary, cur, tgt) ==
    IF boundary >= tgt + 1 THEN <<>>
    ELSE (IF boundary - 1 > cur /\ boundary - 1 < tgt
            THEN <<boundary - 1>> ELSE <<>>)
         \o BoundaryLoop(boundary + FilterBatch, cur, tgt)

first_boundary(cur) ==
    ((cur \div FilterBatch) + 1) * FilterBatch

calculate_batch_boundaries(cur, tgt) ==
    BoundaryLoop(first_boundary(cur), cur, tgt)

----------------------------------------------------------------------------
(* The commands of phases 1 to 5, in program order *)

NUM_ADDRESSES == 50

\* A command of the script. cmd: the RPC command; n: block count of
\* generatetoaddress; idx: address index of a payment to the test wallet (-1:
\* none); amt: amount in units of 0.00001 DASH; tx: the command is followed by
\* stats["transactions_created"] += 1; catch: the command sits in a try block
\* with "except RPCError" whose continuation is catch commands ahead (0: no try
\* block); branch: the returned data may make the code skip branch commands
\* ahead (0: no condition on the result).
Cmd(ph, cmd, n, idx, amt, tx, catch, branch) ==
    [ph |-> ph, cmd |-> cmd, n |-> n, idx |-> idx, amt |-> amt, tx |-> tx,
     catch |-> catch, branch |-> branch]

Rpc(ph, cmd) == Cmd(ph, cmd, 0, -1, 0, FALSE, 0, 0)
MineCmd(ph, n) == Cmd(ph, "generatetoaddress", n, -1, 0, FALSE, 0, 0)
\* _send_to_wallet(index, amount)
SendCmd(ph, idx, amt) == Cmd(ph, "sendtoaddress", 0, idx, amt, TRUE, 0, 0)

\* Generator._verify_dashd; the createwallet is the one the handler of a
\* rejected loadwallet issues
VerifyScript ==
    << Rpc("verify", "getblockcount"), Rpc("verify", "loadwallet"),
       Rpc("verify", "createwallet") >>

\* WalletSyncGenerator._load_addresses
LoadAddressesScript ==
    << Rpc("load_addresses", "createwallet"), Rpc("load_addresses", "dumphdinfo") >>
    \o [i \in 1..NUM_ADDRESSES |->
            Cmd("load_addresses", "getnewaddress", 0, i - 1, 0, FALSE, 0, 0)]

\* WalletSyncGenerator._initialize_utxo_pool
UtxoPoolScript ==
    << Rpc("utxo_pool", "getnewaddress"), MineCmd("utxo_pool", 110),
       Rpc("utxo_pool", "getblockcount") >>
    \o [i \in 1..50 |-> Rpc("utxo_pool", "getnewaddress")]
    \o << Rpc("utxo_pool", "sendmany"), MineCmd("utxo_pool", 1),
          Rpc("utxo_pool", "listunspent") >>

\* _generate_blocks up to phase 2, and _phase_normal_activity
Phase2Script ==
    << Rpc("generate_blocks", "getblockcount"),
       SendCmd("phase2", 0, 1), MineCmd("phase2", 2),
       SendCmd("phase2", 2, 5000), SendCmd("phase2", 5, 50000), MineCmd("phase2", 2),
       SendCmd("phase2", 8, 100000), SendCmd("phase2", 12, 250000), MineCmd("phase2", 2),
       SendCmd("phase2", 15, 10000000), SendCmd("phase2", 20, 10000), MineCmd("phase2", 2),
       SendCmd("phase2", 5, 25000), MineCmd("phase2", 1),
       Cmd("phase2", "sendmany", 0, -1, 60000, TRUE, 0, 0), MineCmd("phase2", 1),
       MineCmd("phase2", 10), Rpc("phase2", "getblockcount"),
       Rpc("phase2", "getblockcount") >>

\* _phase_gap_limit_boundary
Phase3Script_29_not_mined ==
    << SendCmd("phase3", 27, 30000), MineCmd("phase3", 3),
       SendCmd("phase3", 28, 40000), MineCmd("phase3", 3),
       SendCmd("phase3", 29, 50000),
       Rpc("phase3", "getblockcount"), Rpc("phase3", "getblockcount") >>

Phase3Script ==
    << SendCmd("phase3", 27, 30000), MineCmd("phase3", 3),
       SendCmd("phase3", 28, 40000), MineCmd("phase3", 3),
       SendCmd("phase3", 29, 50000), MineCmd("phase3", 3),
       MineCmd("phase3", 10), Rpc("phase3", "getblockcount"),
       Rpc("phase3", "getblockcount") >>

\* _phase_beyond_gap_limit
Phase4Script ==
    << SendCmd("phase4", 32, 60000), MineCmd("phase4", 5),
       SendCmd("phase4", 35, 70000), MineCmd("phase4", 5),
       MineCmd("phase4", 10), Rpc("phase4", "getblockcount"),
       Rpc("phase4", "getblockcount") >>

\* phase 5 with the three blocks after the payment from the test wallet mined
\* inside its try block
Phase5Script_mine_inside_try ==
    << SendCmd("phase5", 0, 500000), MineCmd("phase5", 1),
       Rpc("phase5", "getnewaddress"),
       Cmd("phase5", "spend_from_wallet", 0, -1, 100000, TRUE, 2, 0),
       MineCmd("phase5", 3),
       Cmd("phase5", "listunspent", 0, -1, 0, FALSE, 5, 5),
       Cmd("phase5", "getnewaddress", 0, -1, 0, FALSE, 4, 0),
       Cmd("phase5", "createrawtransaction", 0, -1, 0, FALSE, 3, 0),
       Cmd("phase5", "signrawtransactionwithwallet", 0, -1, 0, FALSE, 2, 2),
       Cmd("phase5", "sendrawtransaction", 0, -1, 0, TRUE, 1, 0),
       MineCmd("phase5", 3),
       MineCmd("phase5", 10), Rpc("phase5", "getblockcount"),
       Rpc("phase5", "getblockcount") >>

\* _phase_transaction_variety
Phase5Script ==
    << SendCmd("phase5", 0, 500000), MineCmd("phase5", 1),
       Rpc("phase5", "getnewaddress"),
       Cmd("phase5", "spend_from_wallet", 0, -1, 100000, TRUE, 1, 0),
       MineCmd("phase5", 3),
       Cmd("phase5", "listunspent", 0, -1, 0, FALSE, 5, 5),
       Cmd("phase5", "getnewaddress", 0, -1, 0, FALSE, 4, 0),
       Cmd("phase5", "createrawtransaction", 0, -1, 0, FALSE, 3, 0),
       Cmd("phase5", "signrawtransactionwithwallet", 0, -1, 0, FALSE, 2, 2),
       Cmd("phase5", "sendrawtransaction", 0, -1, 0, TRUE, 1, 0),
       MineCmd("phase5", 3),
       MineCmd("phase5", 10), Rpc("phase5", "getblockcount"),
       Rpc("phase5", "getblockcount") >>

Script_phase4_before_phase3 ==
    VerifyScript \o LoadAddressesScript \o UtxoPoolScript \o Phase2Script
    \o Phase4Script \o Phase3Script \o Phase5Script

Script ==
    VerifyScript \o LoadAddressesScript \o UtxoPoolScript \o Phase2Script
    \o Phase3Script \o Phase4Script \o Phase5Script

----------------------------------------------------------------------------
(* The node's chain *)

\* the address the node derives at position k of a wallet's sequence
NodeAddress(wallet, k) == <<wallet, k>>

FaucetAddr == NodeAddress("faucet", 0)    \* Generator.mining_address
WalletAddr == NodeAddress("wallet", 0)    \* the test wallet's address of index 0

\* generatetoaddress count address: count more blocks, all mined to address
MineTo(c, addr, n) ==
    IF n <= 0 THEN c
    ELSE IF Len(c) > 0 /\ c[Len(c)][1] = addr
         THEN [c EXCEPT ![Len(c)] = <<addr, c[Len(c)][2] + n>>]
         ELSE Append(c, <<addr, n>>)

\* _mine_blocks(count, address)
mine_blocks(count, address) ==
    /\ height' = height + count
    /\ chain' = MineTo(chain, address, count)

Min(a, b) == IF a < b THEN a ELSE b
Max(a, b) == IF a > b THEN a ELSE b

----------------------------------------------------------------------------
(* DashdManager: start() and stop() *)

\* bound on the unspent outputs the node lists for the test wallet in phase 5
MaxUtxos == 3

\* bound on the faucet self-payments ("random.random() < 0.01") drawn in a run
MaxSelfSends == 1

\* bound on the command rejections absorbed by except-RPCError blocks in a run
MaxRpcFailures == 1

\* bound on the time one failing liveness call takes, in sleep intervals
MaxCallTicks == 1

\* bound on the stop() calls a client of the manager makes
MaxStops == 3

FIRST_RPC_PORT == 19998     \* find_free_port(19998)
MAX_ATTEMPTS == 20          \* max_attempts: int = 20
READY_TIMEOUT == 30         \* _wait_for_ready(timeout=30), seconds
SLEEPS_PER_SECOND == 2      \* time.sleep(0.5)

\* find_free_port found no port and raised
NoPort == 0

\* the timeout of the readiness loop in sleep intervals
TimeoutTicks == READY_TIMEOUT * SLEEPS_PER_SECOND

\* is_port_available(port): the bind on 127.0.0.1 succeeds
is_port_available(port) == port \notin taken

\* the ports a probe still holds bound when is_port_available returns: the with
\* statement closes the socket on both paths
held_after_probe(port) == {}

\* the loop "for port in range(start_port, start_port + max_attempts)" from the
\* loop variable's current value on; NoPort when the loop ends without a return
RECURSIVE ProbeLoop(_, _)
ProbeLoop_inclusive_end(port, end) ==
    IF port > end THEN NoPort
    ELSE IF is_port_available(port) THEN port
    ELSE ProbeLoop(port + 1, end)

ProbeLoop(port, end) ==
    IF port >= end THEN NoPort
    ELSE IF is_port_available(port) THEN port
    ELSE ProbeLoop(port + 1, end)

find_free_port(start_port, max_attempts) ==
    ProbeLoop(start_port, start_port + max_attempts)

\* the candidates find_free_port probed before it returned or raised
ProbedPorts(start_port, max_attempts) ==
    LET r == find_free_port(start_port, max_attempts) IN
      IF r = NoPort THEN start_port..(start_port + max_attempts - 1)
      ELSE start_port..r

\* the ports still held bound after find_free_port
HeldAfterSearch(start_port, max_attempts) ==
    UNION { held_after_probe(q) : q \in ProbedPorts(start_port, max_attempts) }

\* "Determine RPC port": the requested port when one is given ("if
\* self.requested_port"), else the first free port from 19998 on; NoPort when
\* start() raises here
resolve_rpc_port_falls_back ==
    IF requested_port # 0 /\ is_port_available(requested_port)
      THEN requested_port
      ELSE find_free_port(FIRST_RPC_PORT, MAX_ATTEMPTS)

resolve_rpc_port ==
    IF requested_port # 0
      THEN (IF is_port_available(requested_port) THEN requested_port ELSE NoPort)
      ELSE find_free_port(FIRST_RPC_PORT, MAX_ATTEMPTS)

\* "Determine P2P port"
resolve_p2p_port(rpc) == find_free_port(rpc + 1, MAX_ATTEMPTS)

\* the exceptions of start(): all are DashdConnectionError; msg is the text,
\* stderr whether the exception carries the output the process wrote
NoError == [cls |-> "none", msg |-> "none", stderr |-> FALSE]
ConnError(msg) == [cls |-> "DashdConnectionError", msg |-> msg, stderr |-> FALSE]

\* where control goes when start() raises and when it returns
StartRaisesTo_goes_on == IF caller = "generate" THEN "script" ELSE "mgr_idle"

StartRaisesTo == IF caller = "generate" THEN "finally" ELSE "mgr_idle"
StartReturnsTo == IF caller = "generate" THEN "script" ELSE "mgr_idle"

\* start() raises err: generate() lets it propagate to its finally block, the
\* client of the manager catches it
StartRaise(err) ==
    /\ start_error' = err
    /\ exc' = IF caller = "generate" THEN "conn" ELSE exc
    /\ pc' = StartRaisesTo

\* Generator._ensure_dashd_running up to the call of start(): the manager is
\* constructed with process = None, temp_dir = None, should_cleanup = True
EnsureDashdRunning ==
    /\ pc = "ensure"
    /\ mgr' = TRUE
    /\ start_calls' = start_calls + 1
    /\ pc' = "start_verify"
    /\ UNCHANGED <<cfgVars, txVars, exportVars, mainVars, walletVars, histVars, actual_port, p2p_port, launch_port, ret_port, elapsed,
                   polled, observed_exit, post_exit_ops, wait_result, start_error,
                   osVars, process, proc_alive, launched, temp_dir, dir_exists,
                   dir_created, should_cleanup, atexit_reg, stop_ret, stop_calls,
                   force_killed, ip, exc, outcome, nodeVars, bulkVars, logVars>>

\* start(): verify_dashd_executable() holds
StartVerifyOk ==
    /\ pc = "start_verify"
    /\ pc' = "start_ports"
    /\ UNCHANGED <<cfgVars, txVars, exportVars, mainVars, walletVars, histVars, startVars, osVars, mgrVars, ip, exc, outcome, nodeVars,
                   bulkVars, logVars>>

\* start(): the executable is missing: DashdConnectionError before anything is made
StartVerifyFail_after_mkdtemp ==
    /\ pc = "start_popen"
    /\ faulty
    /\ StartRaise(ConnError("executable not found"))
    /\ UNCHANGED <<cfgVars, txVars, exportVars, mainVars, walletVars, histVars, actual_port, p2p_port, launch_port, ret_port, elapsed,
                   polled, observed_exit, post_exit_ops, wait_result, start_calls,
                   osVars, mgrVars, ip, outcome, nodeVars, bulkVars, logVars>>

StartVerifyFail ==
    /\ pc = "start_verify"
    /\ faulty
    /\ StartRaise(ConnError("executable not found"))
    /\ UNCHANGED <<cfgVars, txVars, exportVars, mainVars, walletVars, histVars, actual_port, p2p_port, launch_port, ret_port, elapsed,
                   polled, observed_exit, post_exit_ops, wait_result, start_calls,
                   osVars, mgrVars, ip, outcome, nodeVars, bulkVars, logVars>>

\* the port probes of "Determine RPC port" and "Determine P2P port" up to the
\* point start() gets to: one for the requested port or one search, then the
\* search of the P2P port
PortProbes(rpc) == IF rpc = NoPort THEN 1 ELSE 2

\* the ports held bound after the probes of start()
HeldAfterResolve(rpc) ==
    (IF requested_port # 0 THEN held_after_probe(requested_port)
       ELSE HeldAfterSearch(FIRST_RPC_PORT, MAX_ATTEMPTS))
    \cup (IF rpc = NoPort THEN {} ELSE HeldAfterSearch(rpc + 1, MAX_ATTEMPTS))

\* start(): the RPC port and the P2P port are resolved
StartPortsOk ==
    /\ pc = "start_ports"
    /\ resolve_rpc_port # NoPort
    /\ resolve_p2p_port(resolve_rpc_port) # NoPort
    /\ actual_port' = resolve_rpc_port
    /\ p2p_port' = resolve_p2p_port(resolve_rpc_port)
    /\ probes' = probes + PortProbes(resolve_rpc_port)
    /\ sockets' = sockets \cup HeldAfterResolve(resolve_rpc_port)
    /\ pc' = "start_mkdtemp"
    /\ UNCHANGED <<cfgVars, txVars, exportVars, mainVars, walletVars, histVars, launch_port, ret_port, elapsed, polled, observed_exit,
                   post_exit_ops, wait_result, start_error, start_calls, signals,
                   mgrVars, ip, exc, outcome, nodeVars, bulkVars, logVars>>

\* start(): the requested port is taken, or find_free_port finds none for the
\* RPC port or for the P2P port
StartPortsFail ==
    /\ pc = "start_ports"
    /\ \/ resolve_rpc_port = NoPort
       \/ resolve_p2p_port(resolve_rpc_port) = NoPort
    /\ actual_port' = resolve_rpc_port
    /\ probes' = probes + PortProbes(resolve_rpc_port)
    /\ sockets' = sockets \cup HeldAfterResolve(resolve_rpc_port)
    /\ StartRaise(IF requested_port # 0 /\ resolve_rpc_port = NoPort
                    THEN ConnError("requested port not available")
                    ELSE ConnError("no free port found"))
    /\ UNCHANGED <<cfgVars, txVars, exportVars, mainVars, walletVars, histVars, p2p_port, launch_port, ret_port, elapsed, polled,
                   observed_exit, post_exit_ops, wait_result, start_calls, signals,
                   mgrVars, ip, outcome, nodeVars, bulkVars, logVars>>

\* start(): tempfile.mkdtemp, should_cleanup = not keep_temp, mkdir regtest
StartMkdtemp ==
    /\ pc = "start_mkdtemp"
    /\ temp_dir' = TRUE
    /\ dir_exists' = TRUE
    /\ dir_created' = TRUE
    /\ should_cleanup' = ~keep_temp
    /\ pc' = "start_popen"
    /\ UNCHANGED <<cfgVars, txVars, exportVars, mainVars, walletVars, histVars, startVars, osVars, mgr, process, proc_alive, launched,
                   atexit_reg, stop_ret, stop_calls, force_killed, ip, exc, outcome,
                   nodeVars, bulkVars, logVars>>

\* the -rpcport argument of the command line
cmd_rpcport_requested == requested_port

cmd_rpcport == actual_port

\* start(): subprocess.Popen succeeds, atexit.register(self.stop)
StartPopenOk ==
    /\ pc = "start_popen"
    /\ process' = TRUE
    /\ proc_alive' = TRUE
    /\ launched' = launched + 1
    /\ launch_port' = cmd_rpcport
    /\ atexit_reg' = TRUE
    /\ elapsed' = 0
    /\ pc' = "start_wait"
    /\ UNCHANGED <<cfgVars, txVars, exportVars, mainVars, walletVars, histVars, actual_port, p2p_port, ret_port, polled, observed_exit,
                   post_exit_ops, wait_result, start_error, start_calls, osVars, mgr,
                   temp_dir, dir_exists, dir_created, should_cleanup, stop_ret,
                   stop_calls, force_killed, ip, exc, outcome, nodeVars, bulkVars,
                   logVars>>

\* start(): Popen raises FileNotFoundError, re-raised as DashdConnectionError;
\* the directory made by mkdtemp is left as it is
StartPopenFail ==
    /\ pc = "start_popen"
    /\ faulty
    /\ StartRaise(ConnError("failed to execute dashd"))
    /\ UNCHANGED <<cfgVars, txVars, exportVars, mainVars, walletVars, histVars, actual_port, p2p_port, launch_port, ret_port, elapsed,
                   polled, observed_exit, post_exit_ops, wait_result, start_calls,
                   osVars, mgrVars, ip, outcome, nodeVars, bulkVars, logVars>>

\* the effect of "terminate(); wait(timeout=10)" followed by the handler of
\* TimeoutExpired in stop(): "kill(); wait()". graceful: the process exits
\* within the 10 s. The value is whether the process still runs afterwards.
AliveAfterStop(graceful) == FALSE

\* the directory part of stop(): rmtree when temp_dir is set and marked
StopRemovesDir == temp_dir /\ should_cleanup

\* the signals stop() sends through the handle: terminate(), and kill() after
\* TimeoutExpired
StopSignals(graceful) == 1 + (IF proc_alive /\ ~graceful THEN 1 ELSE 0)

\* "finally: self.process = None" of stop()
HandleAfterStop_kept == process

HandleAfterStop == FALSE

\* DashdManager.stop()
stop(graceful) ==
    /\ IF process
         THEN /\ proc_alive' = AliveAfterStop(graceful)
              /\ force_killed' = (force_killed \/ (proc_alive /\ ~graceful))
              /\ signals' = signals + StopSignals(graceful)
              /\ process' = HandleAfterStop
         ELSE UNCHANGED <<process, proc_alive, force_killed, signals>>
    /\ IF StopRemovesDir
         THEN dir_exists' = FALSE /\ temp_dir' = FALSE
         ELSE UNCHANGED <<dir_exists, temp_dir>>
    /\ stop_calls' = stop_calls + 1

\* the positions inside _wait_for_ready
WaitPcs == {"start_wait", "wait_poll", "wait_call", "wait_sleep", "wait_failed"}

\* the dashd process exits by itself while start() waits for it, or while the
\* client of the manager does nothing
NodeExitsEarly ==
    /\ pc \in WaitPcs \cup {"mgr_idle"}
    /\ faulty
    /\ proc_alive
    /\ proc_alive' = FALSE
    /\ UNCHANGED <<cfgVars, txVars, exportVars, mainVars, walletVars, histVars, startVars, osVars, mgr, process, launched, temp_dir,
                   dir_exists, dir_created, should_cleanup, atexit_reg, stop_ret,
                   stop_calls, force_killed, ctlVars, nodeVars, bulkVars, logVars>>

\* _wait_for_ready: "while time.time() - start_time < timeout", and after the
\* loop the warning and "return False"
WaitLoopTest ==
    /\ pc = "start_wait"
    /\ IF elapsed < TimeoutTicks
         THEN /\ pc' = "wait_poll"
              /\ polled' = FALSE
              /\ UNCHANGED wait_result
         ELSE /\ pc' = "wait_failed"
              /\ wait_result' = "timeout"
              /\ UNCHANGED polled
    /\ UNCHANGED <<cfgVars, txVars, exportVars, mainVars, walletVars, histVars, actual_port, p2p_port, launch_port, ret_port, elapsed,
                   observed_exit, post_exit_ops, start_error, start_calls, osVars,
                   mgrVars, ip, exc, outcome, nodeVars, bulkVars, logVars>>

\* "if self.process and self.process.poll() is not None": the exit is seen
PollSeesExit_never == FALSE

PollSeesExit == process /\ ~proc_alive

\* _wait_for_ready: "Check if process died"; stderr is read and printed, and
\* "return False"
WaitPoll ==
    /\ pc = "wait_poll"
    /\ polled' = TRUE
    /\ IF PollSeesExit
         THEN /\ observed_exit' = TRUE
              /\ wait_result' = "exited"
              /\ pc' = "wait_failed"
         ELSE /\ pc' = "wait_call"
              /\ UNCHANGED <<observed_exit, wait_result>>
    /\ UNCHANGED <<cfgVars, txVars, exportVars, mainVars, walletVars, histVars, actual_port, p2p_port, launch_port, ret_port, elapsed,
                   post_exit_ops, start_error, start_calls, osVars, mgrVars, ip, exc,
                   outcome, nodeVars, bulkVars, logVars>>

\* an operation of the loop made after the exit was seen
AfterExit == IF observed_exit THEN 1 ELSE 0

\* start(): rpc.call("getblockcount") succeeds (the process runs and answers),
\* _wait_for_ready returns True, start() returns (actual_port, temp_dir) and
\* _initialize_rpc_client builds the client
WaitReadyOk ==
    /\ pc = "wait_call"
    /\ proc_alive
    /\ wait_result' = "ready"
    /\ post_exit_ops' = post_exit_ops + AfterExit
    /\ ret_port' = actual_port
    /\ elapsed' = 0
    /\ pc' = StartReturnsTo
    /\ ip' = IF caller = "generate" THEN 1 ELSE ip
    /\ UNCHANGED <<cfgVars, txVars, exportVars, mainVars, walletVars, histVars, actual_port, p2p_port, launch_port, polled, observed_exit,
                   start_error, start_calls, osVars, mgrVars, exc, outcome, nodeVars,
                   bulkVars, logVars>>

\* rpc.call("getblockcount") raises after taking d sleep intervals: "except
\* Exception: last_error = str(e)"
WaitCallFail ==
    /\ pc = "wait_call"
    /\ faulty
    /\ \E d \in 0..MaxCallTicks : elapsed' = elapsed + d
    /\ post_exit_ops' = post_exit_ops + AfterExit
    /\ pc' = "wait_sleep"
    /\ UNCHANGED <<cfgVars, txVars, exportVars, mainVars, walletVars, histVars, actual_port, p2p_port, launch_port, ret_port, polled,
                   observed_exit, wait_result, start_error, start_calls, osVars,
                   mgrVars, ip, exc, outcome, nodeVars, bulkVars, logVars>>

\* time.sleep(0.5)
WaitSleep ==
    /\ pc = "wait_sleep"
    /\ elapsed' = elapsed + 1
    /\ post_exit_ops' = post_exit_ops + AfterExit
    /\ pc' = "start_wait"
    /\ UNCHANGED <<cfgVars, txVars, exportVars, mainVars, walletVars, histVars, actual_port, p2p_port, launch_port, ret_port, polled,
                   observed_exit, wait_result, start_error, start_calls, osVars,
                   mgrVars, ip, exc, outcome, nodeVars, bulkVars, logVars>>

\* the exception start() raises when _wait_for_ready returned False, whatever
\* the reason was
NotReadyError(reason) == ConnError("dashd failed to start within 30 seconds")

\* start(): _wait_for_ready returned False (the process was seen exited, or the
\* 30 s elapsed): stop(), then DashdConnectionError
WaitReadyFail ==
    /\ pc = "wait_failed"
    /\ \E graceful \in BOOLEAN : stop(graceful)
    /\ stop_ret' = "start"
    /\ StartRaise(NotReadyError(wait_result))
    /\ UNCHANGED <<cfgVars, txVars, exportVars, mainVars, walletVars, histVars, actual_port, p2p_port, launch_port, ret_port, elapsed,
                   polled, observed_exit, post_exit_ops, wait_result, start_calls,
                   sockets, probes, mgr, launched, dir_created, should_cleanup,
                   atexit_reg, ip, outcome, nodeVars, bulkVars, logVars>>

\* a client of the manager calls start(keep_temp) on a manager not started yet
ClientStart ==
    /\ pc = "mgr_idle"
    /\ start_calls = 0
    /\ start_calls' = start_calls + 1
    /\ stop_ret' = "none"
    /\ pc' = "start_verify"
    /\ UNCHANGED <<cfgVars, txVars, exportVars, mainVars, walletVars, histVars, actual_port, p2p_port, launch_port, ret_port, elapsed,
                   polled, observed_exit, post_exit_ops, wait_result, start_error,
                   osVars, mgr, process, proc_alive, launched, temp_dir, dir_exists,
                   dir_created, should_cleanup, atexit_reg, stop_calls, force_killed,
                   ip, exc, outcome, nodeVars, bulkVars, logVars>>

\* a client of the manager calls stop()
ClientStop ==
    /\ pc = "mgr_idle"
    /\ stop_calls < MaxStops
    /\ \E graceful \in BOOLEAN : stop(graceful)
    /\ stop_ret' = "client"
    /\ UNCHANGED <<cfgVars, txVars, exportVars, mainVars, walletVars, histVars, startVars, sockets, probes, mgr, launched, dir_created,
                   should_cleanup, atexit_reg, ctlVars, nodeVars, bulkVars, logVars>>

----------------------------------------------------------------------------
(* Generator.generate(): phases 1 to 5, command by command *)

ScriptEnd(i) == IF i > Len(Script) THEN "bulk_enter" ELSE "script"

\* "self.wallet_addresses[i] = address": the dictionary with the value stored
\* under key i
DictStore(d, i, v) ==
    [k \in 1..Max(Len(d), i + 1) |-> IF k = i + 1 THEN v ELSE d[k]]

\* the command is a getnewaddress of the pre-generation loop of _load_addresses
OnTestWallet(c) == c.cmd = "getnewaddress" /\ c.ph = "load_addresses"

\* the address indices and amounts a command of the script pays to: one for
\* _send_to_wallet, three for the sendmany of phase 2, none otherwise
Recipients(c) ==
    IF c.cmd = "sendtoaddress" /\ c.idx >= 0 THEN << <<c.idx, c.amt>> >>
    ELSE IF c.cmd = "sendmany" /\ c.ph = "phase2"
           THEN << <<3, 10000>>, <<7, 20000>>, <<14, 30000>> >>
    ELSE << >>

\* "address = self.wallet_addresses[index]" of _send_to_wallet, and
\* "self.wallet_addresses[3]" of the sendmany
lookup_address_next_index(index) == wallet_addresses[index + 2]

lookup_address(index) == wallet_addresses[index + 1]

\* the payment the node receives from sendtoaddress(address, amount) for index
Payment(index, amount) ==
    [idx |-> index, addr |-> lookup_address(index), amt |-> amount, h |-> height]

\* the commands that make the node create a transaction: a payment, a batched
\* payment, the broadcast of a raw transaction
TxCommands == {"sendtoaddress", "sendmany", "spend_from_wallet", "sendrawtransaction"}

\* command c of the script creates a transaction in one of phases 2 to 5
CreatesTransaction(c) ==
    c.cmd \in TxCommands /\ c.ph \in {"phase2", "phase3", "phase4", "phase5"}

\* "fee = 0.0001", in units of 0.00001 DASH
FEE == 10

\* the unspent outputs the node may list for the test wallet: up to MaxUtxos
\* outputs, each named by its place in the list (its txid and vout)
UtxoAmounts == {4, 6, 7}
UtxoLists ==
    UNION {{[i \in 1..n |-> [id |-> i, amount |-> f[i]]] : f \in [1..n -> UtxoAmounts]} :
             n \in 0..MaxUtxos}

\* the answers to signrawtransactionwithwallet: complete, incomplete, and one
\* without the key "complete"
SignAnswers == {[complete |-> TRUE], [complete |-> FALSE], [errors |-> TRUE]}

NoAnswer == [none |-> TRUE]
NoTx == [inputs |-> <<>>, output |-> 0]
NoConsolidation ==
    [wallet_utxos |-> <<>>, raw_tx |-> NoTx, complete |-> FALSE, sent |-> NoTx]

\* the commands of the consolidation whose answer the code tests
IsListUnspent(c) == c.ph = "phase5" /\ c.cmd = "listunspent"
IsSign(c) == c.ph = "phase5" /\ c.cmd = "signrawtransactionwithwallet"

\* the data a command may return, where the code looks at them
Answers(c) ==
    IF IsListUnspent(c) THEN UtxoLists
    ELSE IF IsSign(c) THEN SignAnswers
    ELSE {NoAnswer}

\* u goes behind the entries of the sorted list s that are not larger
InsertByAmount(u, s) ==
    LET n == Cardinality({k \in 1..Len(s) : s[k].amount <= u.amount}) IN
      SubSeq(s, 1, n) \o <<u>> \o SubSeq(s, n + 1, Len(s))

\* "sorted(wallet_utxos, key=lambda u: u["amount"])": ascending, and stable
RECURSIVE SortedByAmount(_)
SortedByAmount(utxos) ==
    IF utxos = <<>> THEN <<>>
    ELSE InsertByAmount(utxos[Len(utxos)],
                        SortedByAmount(SubSeq(utxos, 1, Len(utxos) - 1)))

selected_unsorted(utxos) == SubSeq(utxos, 1, 2)

\* "selected = sorted(...)[:2]"
selected(utxos) == SubSeq(SortedByAmount(utxos), 1, 2)

\* "total = sum(u["amount"] for u in selected)"
total(sel) == sel[1].amount + sel[2].amount

\* "if len(wallet_utxos) >= 2:" and "if total > fee:"
WorthConsolidating(utxos) == Len(utxos) >= 2 /\ total(selected(utxos)) > FEE

\* createrawtransaction(inputs, outputs) with "inputs = [{txid, vout} for u in
\* selected]" and "outputs = {dest: round(total - fee, 8)}"
RawTx(utxos) ==
    [inputs |-> [k \in 1..Len(selected(utxos)) |-> selected(utxos)[k].id],
     output |-> total(selected(utxos)) - FEE]

\* the steps ahead a command that succeeded with answer r continues at: past
\* the handler's createwallet after loadwallet, past the consolidation when the
\* listed outputs are not worth one, past the broadcast when
\* "signed.get("complete", False)" is false
SkipAfter(c, r) ==
    IF c.ph = "verify" /\ c.cmd = "loadwallet" THEN 2
    ELSE IF IsListUnspent(c) THEN (IF WorthConsolidating(r) THEN 1 ELSE c.branch)
    ELSE IF IsSign(c)
           THEN (IF "complete" \in DOMAIN r /\ r.complete THEN 1 ELSE c.branch)
    ELSE 1

\* the locals of the consolidation after command c answered r; they are gone
\* when _phase_transaction_variety returns
ConsolidationAfter(c, r, next) ==
    IF next > Len(Script) \/ Script[next].ph # "phase5" THEN NoConsolidation
    ELSE IF IsListUnspent(c) THEN [consolidation EXCEPT !.wallet_utxos = r]
    ELSE IF c.cmd = "createrawtransaction"
           THEN [consolidation EXCEPT !.raw_tx = RawTx(consolidation.wallet_utxos)]
    ELSE IF IsSign(c)
           THEN [consolidation EXCEPT !.complete = "complete" \in DOMAIN r /\ r.complete]
    ELSE IF c.cmd = "sendrawtransaction"
           THEN [consolidation EXCEPT !.sent = consolidation.raw_tx]
    ELSE consolidation

\* the command Script[ip] succeeds
ScriptStep ==
    /\ pc = "script"
    /\ LET c == Script[ip] IN
         /\ IF c.cmd = "generatetoaddress"
              THEN mine_blocks(c.n, FaucetAddr)
              ELSE UNCHANGED nodeVars
         /\ stats' = IF c.tx
                       THEN [stats EXCEPT !.transactions_created = @ + 1]
                       ELSE stats
         /\ tx_commands' = IF CreatesTransaction(c) THEN tx_commands + 1 ELSE tx_commands
         /\ UNCHANGED periodic_attempts
         /\ gen_start' = IF c.ph = "generate_blocks" THEN height ELSE gen_start
         /\ derived' = IF OnTestWallet(c) THEN derived + 1 ELSE derived
         /\ wallet_addresses' =
               IF OnTestWallet(c)
                 THEN DictStore(wallet_addresses, c.idx, NodeAddress("wallet", derived))
                 ELSE wallet_addresses
         /\ payments' = payments \o [j \in 1..Len(Recipients(c)) |->
                                        Payment(Recipients(c)[j][1], Recipients(c)[j][2])]
         /\ \E r \in Answers(c) :
               /\ ip' = ip + SkipAfter(c, r)
               /\ pc' = ScriptEnd(ip + SkipAfter(c, r))
               /\ consolidation' = ConsolidationAfter(c, r, ip + SkipAfter(c, r))
    /\ UNCHANGED <<cfgVars, exportVars, mainVars, reject_msg, histVars, startVars, osVars, mgrVars, exc, outcome,
                   bulkVars, markers, self_sends, rpc_failures>>

\* no RPCError is held by a handler
NoMsg == {"<none>"}

\* the texts of the rejections a node sends for loadwallet and createwallet,
\* each given by the phrases it contains
RejectionMessages ==
    { {"already loaded"}, {"not found"}, {"does not exist"}, {"already exists"},
      {"already loaded", "not found"}, {} }

\* _verify_dashd: the except clause of loadwallet, by what it goes on to do
LoadWalletHandler_swallows_all(msg) ==
    IF "not found" \in msg \/ "does not exist" \in msg THEN "create" ELSE "continue"

LoadWalletHandler(msg) ==
    IF "already loaded" \in msg THEN "continue"
    ELSE IF "not found" \in msg \/ "does not exist" \in msg THEN "create"
    ELSE "raise"

\* _load_addresses: the except clause of createwallet
CreateWalletHandler(msg) ==
    IF "already exists" \in msg \/ "already loaded" \in msg THEN "continue" ELSE "raise"

\* the commands of wallet set-up that sit in such a try block
WalletSetupCmd(c) ==
    \/ c.ph = "verify" /\ c.cmd = "loadwallet"
    \/ c.ph = "load_addresses" /\ c.cmd = "createwallet"

WalletHandler(c, msg) ==
    IF c.cmd = "loadwallet" THEN LoadWalletHandler(msg) ELSE CreateWalletHandler(msg)

\* where the code continues after the handler: at the createwallet of the
\* handler, or after the try statement
HandlerSkips(c, todo) ==
    IF c.cmd = "loadwallet" /\ todo = "continue" THEN 2 ELSE 1

\* the numbers of addresses a test wallet that exists already may have derived
\* before the run: none, one, those of an earlier run
EarlierDerived == {0, 1, NUM_ADDRESSES}

\* the addresses the test wallet has derived when the handler of createwallet
\* goes on: the wallet was there before the run
DerivedAfterHandler(c, todo) ==
    IF c.ph = "load_addresses" /\ todo = "continue" THEN EarlierDerived ELSE {derived}

\* loadwallet or the test wallet's createwallet is rejected: "except RPCError
\* as e: error_msg = str(e).lower()"
WalletRejected ==
    /\ pc = "script"
    /\ wallet_faults
    /\ rpc_failures < MaxRpcFailures
    /\ WalletSetupCmd(Script[ip])
    /\ \E m \in RejectionMessages : reject_msg' = m
    /\ rpc_failures' = rpc_failures + 1
    /\ pc' = "wallet_except"
    /\ UNCHANGED <<cfgVars, txVars, exportVars, mainVars, derived, wallet_addresses, payments, histVars, startVars,
                   osVars, mgrVars, ip, exc, outcome, nodeVars, bulkVars, stats, markers,
                   self_sends, gen_start>>

\* the body of the except clause: the if / elif / else on error_msg
WalletExcept ==
    /\ pc = "wallet_except"
    /\ LET c == Script[ip]
           todo == WalletHandler(c, reject_msg) IN
         IF todo = "raise"
           THEN /\ exc' = "rpc"
                /\ raised_at' = pc
                /\ pc' = "finally"
                /\ UNCHANGED <<ip, failed_sites>>
           ELSE /\ ip' = ip + HandlerSkips(c, todo)
                /\ pc' = "script"
                /\ failed_sites' = failed_sites \cup {<<"script", ip>>}
                /\ UNCHANGED <<exc, raised_at>>
    /\ \E d \in DerivedAfterHandler(Script[ip], WalletHandler(Script[ip], reject_msg)) :
          derived' = d
    /\ reject_msg' = NoMsg
    /\ UNCHANGED <<cfgVars, txVars, exportVars, mainVars, wallet_addresses, payments, startVars, osVars, mgrVars,
                   outcome, nodeVars, bulkVars, logVars>>

\* the step of the run the program is about to issue a command for: a command
\* of phases 1 to 5, the marker payment of a boundary, the periodic payment
\* with the current counter, the self-payment with the current number
CurrentSite ==
    CASE pc = "script" -> <<"script", ip>>
      [] pc \in {"bulk_markers", "bulk_marker_mine"} /\ pending # <<>> ->
            <<"marker", Head(pending)>>
      [] pc \in {"bulk_periodic", "bulk_periodic_mine"} -> <<"periodic", periodic_counter>>
      [] pc = "bulk_selfsend" -> <<"self", self_sends>>
      [] OTHER -> <<"none", 0>>

\* the command Script[ip] is rejected (RPCError) inside a try block that
\* catches RPCError: the rest of the try block is skipped
ScriptRejected_retries ==
    /\ pc = "script"
    /\ faulty
    /\ rpc_failures < MaxRpcFailures
    /\ Script[ip].catch > 0
    /\ ip' = ip
    /\ pc' = "script"
    /\ rpc_failures' = rpc_failures + 1
    /\ failed_sites' = failed_sites \cup {CurrentSite}
    /\ UNCHANGED <<cfgVars, txVars, exportVars, mainVars, walletVars, raised_at, startVars, osVars, mgrVars, exc, outcome, nodeVars,
                   bulkVars, stats, markers, self_sends, gen_start>>

ScriptRejected_absorbs_all ==
    /\ pc = "script"
    /\ faulty
    /\ rpc_failures < MaxRpcFailures
    /\ ~WalletSetupCmd(Script[ip])
    /\ ip' = ip + Max(Script[ip].catch, 1)
    /\ pc' = ScriptEnd(ip + Max(Script[ip].catch, 1))
    /\ rpc_failures' = rpc_failures + 1
    /\ failed_sites' = failed_sites \cup {CurrentSite}
    /\ UNCHANGED <<cfgVars, txVars, exportVars, mainVars, walletVars, raised_at, startVars, osVars, mgrVars, exc, outcome,
                   nodeVars, bulkVars, stats, markers, self_sends, gen_start>>

ScriptRejected ==
    /\ pc = "script"
    /\ faulty
    /\ rpc_failures < MaxRpcFailures
    /\ Script[ip].catch > 0
    /\ ip' = ip + Script[ip].catch
    /\ pc' = ScriptEnd(ip + Script[ip].catch)
    /\ rpc_failures' = rpc_failures + 1
    /\ failed_sites' = failed_sites \cup {CurrentSite}
    /\ UNCHANGED <<cfgVars, txVars, exportVars, mainVars, walletVars, raised_at, startVars, osVars, mgrVars, exc, outcome, nodeVars, bulkVars, stats, markers,
                   self_sends, gen_start>>

----------------------------------------------------------------------------
(* WalletSyncGenerator._phase_bulk_generation *)

BULK_BATCH_SIZE == 500          \* batch_size
PERIODIC_INTERVAL == 1000       \* periodic_interval
FIRST_BOUNDARY_INDEX_at_48 == NUM_ADDRESSES - 2
FIRST_BOUNDARY_INDEX == 40      \* boundary_addr_index = 40
WALLET_BLOCKS == 5              \* min(5, ...) blocks to the test wallet
MATURE_START_OFFSET == 200      \* mature_coinbase_start = target - 200
MATURE_END_OFFSET == 101        \* mature_coinbase_end = target - 101
IMMATURE_START_OFFSET == 99     \* immature_coinbase_start = target - 99

\* "coinbase_wallet_addr = self.wallet_addresses[0]"
coinbase_wallet_addr == lookup_address(0)

\* periodic_addresses and periodic_amounts (in units of 0.00001 DASH)
periodic_addresses == <<1, 4, 6, 9, 10, 13, 16, 18, 21, 23, 25, 30, 33, 36, 38>>
periodic_amounts ==
    <<2000, 15000, 50000, 100000, 100, 300000, 8000, 25000, 75000, 200000, 500,
      40000, 150000, 3000, 10000>>

\* a rotation that advances only when the periodic send succeeded
periodic_idx_successes_only ==
    periodic_addresses[((periodic_counter
                         - Cardinality({site \in failed_sites : site[1] = "periodic"}))
                        % Len(periodic_addresses)) + 1]

\* "idx = periodic_addresses[periodic_counter % len(periodic_addresses)]"
periodic_idx == periodic_addresses[(periodic_counter % Len(periodic_addresses)) + 1]
\* "amt = periodic_amounts[periodic_counter % len(periodic_amounts)]"
periodic_amt == periodic_amounts[(periodic_counter % Len(periodic_amounts)) + 1]

\* "self._send_to_wallet(idx, amt, f"periodic at height {current_height}")":
\* the arguments of one periodic attempt and the node's height when it is made
PeriodicAttempt == [idx |-> periodic_idx, amt |-> periodic_amt, h |-> height]

\* the amount of a boundary-marker payment, 0.01 DASH
MARKER_AMOUNT == 1000

mature_coinbase_start_wrong_offset == target - 300

mature_coinbase_start == target - MATURE_START_OFFSET
mature_coinbase_end == target - MATURE_END_OFFSET
immature_coinbase_start == target - IMMATURE_START_OFFSET

\* "for boundary in batch_boundaries: if boundary > current_height:
\*  next_important_height = min(next_important_height, boundary)"
RECURSIVE NextBoundaryMin(_, _, _)
NextBoundaryMin(bs, cur, nih) ==
    IF bs = <<>> THEN nih
    ELSE NextBoundaryMin(Tail(bs), cur,
                         IF Head(bs) > cur THEN Min(nih, Head(bs)) ELSE nih)

\* batches that do not stop at the starts and the end of the coinbase ranges
ClampTo_never(cur, x, nih) == nih

\* the three "if current_height < X and X < next_important_height" statements
ClampTo(cur, x, nih) == IF cur < x /\ x < nih THEN x ELSE nih

next_important_height ==
    ClampTo(current_height, immature_coinbase_start,
      ClampTo(current_height, mature_coinbase_end,
        ClampTo(current_height, mature_coinbase_start,
          NextBoundaryMin(batch_boundaries, current_height, target))))

blocks_to_mine ==
    Max(Min(next_important_height - current_height, BULK_BATCH_SIZE), 1)

batch_end == current_height + blocks_to_mine

InMatureRange ==
    mature_coinbase_start <= current_height /\ current_height < mature_coinbase_end

InImmatureRange == immature_coinbase_start <= current_height

\* "list.remove(x)": the first occurrence of x is removed
RECURSIVE Remove(_, _)
Remove(seq, x) ==
    IF seq = <<>> THEN <<>>
    ELSE IF Head(seq) = x THEN Tail(seq)
    ELSE <<Head(seq)>> \o Remove(Tail(seq), x)

\* entry: getblockcount, the skip test, the scheduler call, the locals
BulkEnter ==
    /\ pc = "bulk_enter"
    /\ current_height' = height
    /\ IF target - height <= 0
         THEN /\ pc' = "gen_final"
              /\ UNCHANGED <<batch_boundaries, scheduled, boundary_addr_index,
                             next_periodic_height, periodic_counter>>
         ELSE /\ pc' = "bulk_loop"
              /\ batch_boundaries' = calculate_batch_boundaries(height, target)
              /\ scheduled' = calculate_batch_boundaries(height, target)
              /\ boundary_addr_index' = FIRST_BOUNDARY_INDEX
              /\ next_periodic_height' = height + PERIODIC_INTERVAL
              /\ periodic_counter' = 0
    /\ UNCHANGED <<cfgVars, txVars, exportVars, mainVars, walletVars, histVars, startVars, osVars, mgrVars, ip, exc, outcome, nodeVars, pending, rest_end,
                   logVars>>

\* "while current_height < target" is false
BulkLoopExit ==
    /\ pc = "bulk_loop"
    /\ ~(current_height < target)
    /\ pc' = "bulk_verify"
    /\ UNCHANGED <<cfgVars, txVars, exportVars, mainVars, walletVars, histVars, startVars, osVars, mgrVars, ip, exc, outcome, nodeVars, bulkVars, logVars>>

\* mature coinbase branch, first mining call: blocks to the test wallet
BulkMature ==
    /\ pc = "bulk_loop"
    /\ current_height < target
    /\ InMatureRange
    /\ LET wallet_blocks == Min(WALLET_BLOCKS, batch_end - current_height) IN
         /\ mine_blocks(wallet_blocks, coinbase_wallet_addr)
         /\ stats' = [stats EXCEPT !.coinbase_rewards = @ + wallet_blocks]
         /\ current_height' = current_height + wallet_blocks
    /\ rest_end' = batch_end
    /\ pc' = "bulk_rest"
    /\ UNCHANGED <<cfgVars, txVars, exportVars, mainVars, walletVars, histVars, startVars, osVars, mgrVars, ip, exc, outcome, batch_boundaries, scheduled,
                   boundary_addr_index, next_periodic_height, periodic_counter,
                   pending, markers, self_sends, rpc_failures, gen_start>>

\* immature coinbase branch, first mining call: blocks to the test wallet
BulkImmature ==
    /\ pc = "bulk_loop"
    /\ current_height < target
    /\ ~InMatureRange
    /\ InImmatureRange
    /\ LET wallet_blocks == Min(WALLET_BLOCKS, target - current_height) IN
         /\ mine_blocks(wallet_blocks, coinbase_wallet_addr)
         /\ stats' = [stats EXCEPT !.coinbase_rewards = @ + wallet_blocks]
         /\ current_height' = current_height + wallet_blocks
    /\ rest_end' = target
    /\ pc' = "bulk_rest"
    /\ UNCHANGED <<cfgVars, txVars, exportVars, mainVars, walletVars, histVars, startVars, osVars, mgrVars, ip, exc, outcome, batch_boundaries, scheduled,
                   boundary_addr_index, next_periodic_height, periodic_counter,
                   pending, markers, self_sends, rpc_failures, gen_start>>

\* both coinbase branches, "Mine remaining to faucet", then "continue"
BulkRest ==
    /\ pc = "bulk_rest"
    /\ LET remaining == rest_end - current_height IN
         IF remaining > 0
           THEN /\ mine_blocks(remaining, FaucetAddr)
                /\ current_height' = current_height + remaining
           ELSE UNCHANGED <<nodeVars, current_height>>
    /\ pc' = "bulk_loop"
    /\ UNCHANGED <<cfgVars, txVars, exportVars, mainVars, walletVars, histVars, startVars, osVars, mgrVars, ip, exc, outcome, batch_boundaries, scheduled,
                   boundary_addr_index, next_periodic_height, periodic_counter,
                   pending, rest_end, logVars>>

\* "Normal bulk mining", and the snapshot list(batch_boundaries)
BulkNormal ==
    /\ pc = "bulk_loop"
    /\ current_height < target
    /\ ~InMatureRange
    /\ ~InImmatureRange
    /\ mine_blocks(blocks_to_mine, FaucetAddr)
    /\ current_height' = current_height + blocks_to_mine
    /\ pending' = batch_boundaries
    /\ pc' = "bulk_markers"
    /\ UNCHANGED <<cfgVars, txVars, exportVars, mainVars, walletVars, histVars, startVars, osVars, mgrVars, ip, exc, outcome, batch_boundaries, scheduled,
                   boundary_addr_index, next_periodic_height, periodic_counter,
                   rest_end, logVars>>


\* "for boundary in list(batch_boundaries)": the loop is over
MarkersDone ==
    /\ pc = "bulk_markers"
    /\ pending = <<>>
    /\ pc' = "bulk_periodic"
    /\ UNCHANGED <<cfgVars, txVars, exportVars, mainVars, walletVars, histVars, startVars, osVars, mgrVars, ip, exc, outcome, nodeVars, bulkVars, logVars>>

\* "if boundary <= current_height" is false for this boundary
MarkerPass ==
    /\ pc = "bulk_markers"
    /\ pending # <<>>
    /\ ~(Head(pending) <= current_height)
    /\ pending' = Tail(pending)
    /\ UNCHANGED <<cfgVars, txVars, exportVars, mainVars, walletVars, histVars, startVars, osVars, mgrVars, ctlVars, nodeVars, current_height, batch_boundaries,
                   scheduled, boundary_addr_index, next_periodic_height,
                   periodic_counter, rest_end, logVars>>

\* DashRPCClient.call for a payment: the command is submitted to the node
\* once, with no implicit retry; the value is what the node receives
rpc_call(payment) == <<payment>>

\* the boundary was passed and an address index is left:
\* _send_to_wallet(boundary_addr_index, 0.01, ...)
MarkerSend ==
    /\ pc = "bulk_markers"
    /\ pending # <<>>
    /\ Head(pending) <= current_height
    /\ boundary_addr_index < NUM_ADDRESSES
    /\ markers' = markers \o rpc_call(<<Head(pending), height, boundary_addr_index>>)
    /\ payments' = Append(payments, Payment(boundary_addr_index, MARKER_AMOUNT))
    /\ tx_commands' = tx_commands + 1
    /\ UNCHANGED <<periodic_attempts, consolidation>>
    /\ stats' = [stats EXCEPT !.transactions_created = @ + 1]
    /\ pc' = "bulk_marker_mine"
    /\ UNCHANGED <<cfgVars, exportVars, mainVars, reject_msg, derived, wallet_addresses, histVars, startVars, osVars, mgrVars, ip, exc, outcome, nodeVars, bulkVars, self_sends,
                   rpc_failures, gen_start>>

\* "_mine_blocks(1); current_height += 1; boundary_addr_index += 1" and
\* "batch_boundaries.remove(boundary)"
MarkerMine ==
    /\ pc = "bulk_marker_mine"
    /\ mine_blocks(1, FaucetAddr)
    /\ current_height' = current_height + 1
    /\ boundary_addr_index' = boundary_addr_index + 1
    /\ batch_boundaries' = Remove(batch_boundaries, Head(pending))
    /\ pending' = Tail(pending)
    /\ pc' = "bulk_markers"
    /\ UNCHANGED <<cfgVars, txVars, exportVars, mainVars, walletVars, histVars, startVars, osVars, mgrVars, ip, exc, outcome, scheduled, next_periodic_height,
                   periodic_counter, rest_end, logVars>>

\* the boundary was passed and the indices 40..49 are used up: only
\* "batch_boundaries.remove(boundary)"
MarkerSkip ==
    /\ pc = "bulk_markers"
    /\ pending # <<>>
    /\ Head(pending) <= current_height
    /\ ~(boundary_addr_index < NUM_ADDRESSES)
    /\ batch_boundaries' = Remove(batch_boundaries, Head(pending))
    /\ pending' = Tail(pending)
    /\ UNCHANGED <<cfgVars, txVars, exportVars, mainVars, walletVars, histVars, startVars, osVars, mgrVars, ctlVars, nodeVars, current_height, scheduled,
                   boundary_addr_index, next_periodic_height, periodic_counter,
                   rest_end, logVars>>

\* "if current_height >= next_periodic_height" is false
PeriodicNotDue ==
    /\ pc = "bulk_periodic"
    /\ ~(current_height >= next_periodic_height)
    /\ pc' = "bulk_selfsend"
    /\ UNCHANGED <<cfgVars, txVars, exportVars, mainVars, walletVars, histVars, startVars, osVars, mgrVars, ip, exc, outcome, nodeVars, bulkVars, logVars>>

\* the periodic _send_to_wallet succeeds
PeriodicSend ==
    /\ pc = "bulk_periodic"
    /\ current_height >= next_periodic_height
    /\ payments' = Append(payments, Payment(periodic_idx, periodic_amt))
    /\ tx_commands' = tx_commands + 1
    /\ periodic_attempts' = Append(periodic_attempts, PeriodicAttempt)
    /\ UNCHANGED consolidation
    /\ stats' = [stats EXCEPT !.transactions_created = @ + 1]
    /\ pc' = "bulk_periodic_mine"
    /\ UNCHANGED <<cfgVars, exportVars, mainVars, reject_msg, derived, wallet_addresses, histVars, startVars, osVars, mgrVars, ip, exc, outcome, nodeVars, bulkVars, markers,
                   self_sends, rpc_failures, gen_start>>

\* the periodic "_mine_blocks(1); current_height += 1", then the counter and
\* the next periodic height
PeriodicMine ==
    /\ pc = "bulk_periodic_mine"
    /\ mine_blocks(1, FaucetAddr)
    /\ current_height' = current_height + 1
    /\ periodic_counter' = periodic_counter + 1
    /\ next_periodic_height' = current_height + 1 + PERIODIC_INTERVAL
    /\ pc' = "bulk_selfsend"
    /\ UNCHANGED <<cfgVars, txVars, exportVars, mainVars, walletVars, histVars, startVars, osVars, mgrVars, ip, exc, outcome, batch_boundaries, scheduled,
                   boundary_addr_index, pending, rest_end, logVars>>

\* the periodic send or its mining call is rejected: "except RPCError: pass"
PeriodicRejected ==
    /\ pc \in {"bulk_periodic", "bulk_periodic_mine"}
    /\ pc = "bulk_periodic" => current_height >= next_periodic_height
    /\ faulty
    /\ rpc_failures < MaxRpcFailures
    /\ rpc_failures' = rpc_failures + 1
    /\ failed_sites' = failed_sites \cup {CurrentSite}
    /\ periodic_counter' = periodic_counter + 1
    /\ next_periodic_height' = current_height + PERIODIC_INTERVAL
    /\ periodic_attempts' = IF pc = "bulk_periodic"
                               THEN Append(periodic_attempts, PeriodicAttempt)
                               ELSE periodic_attempts
    /\ pc' = "bulk_selfsend"
    /\ UNCHANGED <<cfgVars, tx_commands, consolidation, exportVars, mainVars, walletVars, raised_at, startVars, osVars, mgrVars, ip, exc, outcome, nodeVars, current_height,
                   batch_boundaries, scheduled, boundary_addr_index, pending, rest_end,
                   stats, markers, self_sends, gen_start>>

\* "random.random() < 0.01" is false; progress logging; next iteration
SelfSendNotDrawn ==
    /\ pc = "bulk_selfsend"
    /\ pc' = "bulk_loop"
    /\ UNCHANGED <<cfgVars, txVars, exportVars, mainVars, walletVars, histVars, startVars, osVars, mgrVars, ip, exc, outcome, nodeVars, bulkVars, logVars>>

\* the faucet self-payment: getnewaddress, sendtoaddress, _mine_blocks(1)
SelfSend ==
    /\ pc = "bulk_selfsend"
    /\ draws
    /\ self_sends < MaxSelfSends
    /\ self_sends' = self_sends + 1
    /\ tx_commands' = tx_commands + 1
    /\ UNCHANGED <<periodic_attempts, consolidation>>
    /\ mine_blocks(1, FaucetAddr)
    /\ current_height' = current_height + 1
    /\ pc' = "bulk_loop"
    /\ UNCHANGED <<cfgVars, exportVars, mainVars, walletVars, histVars, startVars, osVars, mgrVars, ip, exc, outcome, batch_boundaries, scheduled,
                   boundary_addr_index, next_periodic_height, periodic_counter,
                   pending, rest_end, stats, markers, rpc_failures, gen_start>>

\* a command of the self-payment is rejected: "except RPCError: pass"
SelfSendRejected ==
    /\ pc = "bulk_selfsend"
    /\ faulty
    /\ draws
    /\ self_sends < MaxSelfSends
    /\ rpc_failures < MaxRpcFailures
    /\ self_sends' = self_sends + 1
    /\ rpc_failures' = rpc_failures + 1
    /\ failed_sites' = failed_sites \cup {CurrentSite}
    /\ pc' = "bulk_loop"
    /\ UNCHANGED <<cfgVars, txVars, exportVars, mainVars, walletVars, raised_at, startVars, osVars, mgrVars, ip, exc, outcome, nodeVars, bulkVars, stats,
                   markers, gen_start>>

\* "Verify final height": the shortfall, if any, is mined; an overshoot is logged
BulkVerify ==
    /\ pc = "bulk_verify"
    /\ IF height < target
         THEN mine_blocks(target - height, FaucetAddr)
         ELSE UNCHANGED nodeVars
    /\ pc' = "gen_final"
    /\ UNCHANGED <<cfgVars, txVars, exportVars, mainVars, walletVars, histVars, startVars, osVars, mgrVars, ip, exc, outcome, bulkVars, logVars>>

\* _generate_blocks after phase 6: final_height = getblockcount,
\* stats["blocks_generated"] = final_height - current_height
GenFinal ==
    /\ pc = "gen_final"
    /\ stats' = [stats EXCEPT !.blocks_generated = height - gen_start]
    /\ pc' = "export_height"
    /\ UNCHANGED <<cfgVars, txVars, exportVars, mainVars, walletVars, histVars, startVars, osVars, mgrVars, ip, exc, outcome, nodeVars, bulkVars, markers,
                   self_sends, rpc_failures, gen_start>>

----------------------------------------------------------------------------
(* Generator._export_data *)

\* final_height = getblockcount; a difference from the target is only logged
ExportHeight ==
    /\ pc = "export_height"
    /\ pc' = "export_outdir"
    /\ UNCHANGED <<cfgVars, txVars, exportVars, mainVars, walletVars, histVars, startVars, osVars, mgrVars, ip, exc, outcome, nodeVars, bulkVars, logVars>>

\* a file of the output directory: its path below regtest-<target> and the
\* run that wrote it
File(path, run) == [path |-> path, run |-> run]

ThisRun == "this run"
EarlierRun == "an earlier run"

\* no directory regtest-<target> under output_base
NoOutdir == [exists |-> FALSE, files |-> {}]

\* _save_wallet_files: wallets/<wallet_name>.json for each of self.wallets
WalletFiles(run) ==
    { File(<<"wallets", "faucet.json">>, run), File(<<"wallets", "wallet.json">>, run) }

\* the regtest directory of the node's data directory
RegtestFiles(run) ==
    { File(<<"regtest", "blocks">>, run), File(<<"regtest", "wallet">>, run) }

\* files an export does not write: a log of the node, a file of the user
Leftovers ==
    { File(<<"regtest", "debug.log">>, EarlierRun), File(<<"notes.txt">>, EarlierRun) }

\* the directories a run may find: none, an empty one, an earlier export,
\* an earlier export with further files, further files alone
ExistingOutdirs ==
    { NoOutdir,
      [exists |-> TRUE, files |-> {}],
      [exists |-> TRUE, files |-> WalletFiles(EarlierRun) \cup RegtestFiles(EarlierRun)],
      [exists |-> TRUE,
       files |-> WalletFiles(EarlierRun) \cup RegtestFiles(EarlierRun) \cup Leftovers],
      [exists |-> TRUE, files |-> Leftovers] }

Paths(files) == { f.path : f \in files }

\* writing files into a directory replaces those of the same path
WriteFiles(d, files) ==
    [exists |-> TRUE,
     files |-> { f \in d.files : f.path \notin Paths(files) } \cup files]

rmtree_outdir_keeps(d) == d

\* "if self.output_dir.exists(): shutil.rmtree(self.output_dir)"
rmtree_outdir(d) == IF d.exists THEN NoOutdir ELSE d

\* self.output_dir.mkdir(parents=True, exist_ok=True)
mkdir_outdir(d) == [d EXCEPT !.exists = TRUE]

\* _save_wallet_files: wallets/ is made if missing and each wallet file written
save_wallet_files(d) == WriteFiles(d, WalletFiles(ThisRun))

\* _copy_dashd_datadir: a regtest directory in the output directory is
\* removed, then the node's is copied; nothing is copied when the data
\* directory is gone
copy_dashd_datadir(d, source_exists) ==
    IF source_exists
      THEN [exists |-> TRUE,
            files |-> { f \in d.files : Head(f.path) # "regtest" }
                      \cup RegtestFiles(ThisRun)]
      ELSE d

\* the file operations of _export_data, in its order
export_data(d, source_exists) ==
    copy_dashd_datadir(save_wallet_files(mkdir_outdir(rmtree_outdir(d))), source_exists)

\* the output directory is removed if it exists, and made
ExportOutdir ==
    /\ pc = "export_outdir"
    /\ output_dir' = mkdir_outdir(rmtree_outdir(output_dir))
    /\ pc' = "export_stats"
    /\ UNCHANGED <<cfgVars, txVars, mainVars, walletVars, histVars, startVars, osVars, mgrVars, ip, exc, outcome, nodeVars, bulkVars, logVars>>

\* _collect_wallet_statistics, while dashd runs
ExportStats ==
    /\ pc = "export_stats"
    /\ pc' = "export_save"
    /\ UNCHANGED <<cfgVars, txVars, exportVars, mainVars, walletVars, histVars, startVars, osVars, mgrVars, ip, exc, outcome, nodeVars, bulkVars, logVars>>

\* _save_wallet_files
ExportSave ==
    /\ pc = "export_save"
    /\ output_dir' = save_wallet_files(output_dir)
    /\ pc' = "export_terminate"
    /\ UNCHANGED <<cfgVars, txVars, mainVars, walletVars, histVars, startVars, osVars, mgrVars, ip, exc, outcome, nodeVars, bulkVars, logVars>>

\* the effect of "terminate(); wait(timeout=10)" in _export_data, where
\* TimeoutExpired is caught by "except Exception" and only logged
AliveAfterExportTerminate(graceful) == IF graceful THEN FALSE ELSE proc_alive

\* "Stop dashd process but don't cleanup temp dir yet"
ExportTerminate ==
    /\ pc = "export_terminate"
    /\ IF mgr /\ process
         THEN /\ \E graceful \in BOOLEAN :
                    proc_alive' = AliveAfterExportTerminate(graceful)
              /\ signals' = signals + 1
              /\ process' = FALSE
         ELSE UNCHANGED <<process, proc_alive, signals>>
    /\ pc' = "export_sleep"
    /\ UNCHANGED <<cfgVars, txVars, exportVars, mainVars, walletVars, histVars, startVars, sockets, probes, mgr, launched, temp_dir, dir_exists, dir_created,
                   should_cleanup, atexit_reg, stop_ret, stop_calls, force_killed, ip,
                   exc, outcome, nodeVars, bulkVars, logVars>>

\* KeyboardInterrupt inside "terminate(); wait(timeout=10)": it is no Exception,
\* so only "finally: self.dashd_manager.process = None" runs
ExportTerminateInterrupted ==
    /\ pc = "export_terminate"
    /\ faulty
    /\ mgr /\ process
    /\ process' = FALSE
    /\ signals' = signals + 1
    /\ \E exits \in BOOLEAN : proc_alive' = (proc_alive /\ ~exits)
    /\ exc' = "interrupt"
    /\ pc' = "finally"
    /\ UNCHANGED <<cfgVars, txVars, exportVars, mainVars, walletVars, histVars, startVars, sockets, probes, mgr, launched, temp_dir, dir_exists, dir_created,
                   should_cleanup, atexit_reg, stop_ret, stop_calls, force_killed, ip,
                   outcome, nodeVars, bulkVars, logVars>>

\* time.sleep(2)
ExportSleep ==
    /\ pc = "export_sleep"
    /\ pc' = "export_copy"
    /\ UNCHANGED <<cfgVars, txVars, exportVars, mainVars, walletVars, histVars, startVars, osVars, mgrVars, ip, exc, outcome, nodeVars, bulkVars, logVars>>

\* _copy_dashd_datadir
ExportCopy ==
    /\ pc = "export_copy"
    /\ output_dir' = copy_dashd_datadir(output_dir, dir_exists)
    /\ pc' = "export_cleanup"
    /\ UNCHANGED <<cfgVars, txVars, mainVars, walletVars, histVars, startVars, osVars, mgrVars, ip, exc, outcome, nodeVars, bulkVars, logVars>>

\* "Now cleanup temp dir if needed"; _export_data returns and the try body ends
ExportCleanup ==
    /\ pc = "export_cleanup"
    /\ IF mgr /\ temp_dir /\ should_cleanup
         THEN dir_exists' = FALSE /\ temp_dir' = FALSE
         ELSE UNCHANGED <<dir_exists, temp_dir>>
    /\ pc' = "finally"
    /\ UNCHANGED <<cfgVars, txVars, exportVars, mainVars, walletVars, histVars, startVars, osVars, mgr, process, proc_alive, launched, dir_created,
                   should_cleanup, atexit_reg, stop_ret, stop_calls, force_killed, ip,
                   exc, outcome, nodeVars, bulkVars, logVars>>

----------------------------------------------------------------------------
(* Exceptions leaving the try body of generate() *)

\* the positions of the try body
TryPcs ==
    {"ensure", "start_verify", "start_ports", "start_mkdtemp", "start_popen",
     "start_wait", "wait_poll", "wait_call", "wait_sleep", "wait_failed", "script", "wallet_except",
     "bulk_enter", "bulk_loop", "bulk_rest", "bulk_markers",
     "bulk_marker_mine", "bulk_periodic", "bulk_periodic_mine", "bulk_selfsend",
     "bulk_verify", "gen_final", "export_height", "export_outdir", "export_stats",
     "export_save", "export_sleep", "export_copy", "export_cleanup"}

\* the next statement at pc issues a command to the node
CommandPending ==
    \/ pc \in {"script", "bulk_enter", "bulk_marker_mine", "bulk_periodic_mine",
               "bulk_verify", "gen_final", "export_height", "export_stats"}
    \/ pc = "bulk_selfsend" /\ draws
    \/ pc = "bulk_loop" /\ current_height < target
    \/ pc = "bulk_rest" /\ rest_end - current_height > 0
    \/ pc = "bulk_markers" /\ pending # <<>> /\ Head(pending) <= current_height
                           /\ boundary_addr_index < NUM_ADDRESSES
    \/ pc = "bulk_periodic" /\ current_height >= next_periodic_height

\* the next command sits in a try block that catches RPCError
InRpcCatch ==
    \/ pc = "script" /\ Script[ip].catch > 0
    \/ pc = "script" /\ WalletSetupCmd(Script[ip])
    \/ pc \in {"bulk_periodic", "bulk_periodic_mine", "bulk_selfsend"}

\* the next statement at pc works on files
FileOpPending == pc \in {"export_outdir", "export_save", "export_copy"}

\* whether "except RPCError" catches exception e: DashdConnectionError and
\* RPCError are different kinds of error, neither a kind of the other
CaughtByExceptRPCError(e) == e = "rpc"

\* what may be raised at pc: DashdConnectionError by a command, RPCError by a
\* command outside the catching try blocks, an OSError by a file operation,
\* KeyboardInterrupt anywhere
Raisable ==
    (IF pc \in TryPcs THEN {"interrupt"} ELSE {})
    \cup { e \in {"conn", "rpc"} :
             CommandPending /\ ~(InRpcCatch /\ CaughtByExceptRPCError(e)) }
    \cup (IF FileOpPending THEN {"os"} ELSE {})

\* an exception propagates to generate(): "except KeyboardInterrupt" turns an
\* interrupt into GeneratorError("User interrupted"); then the finally block.
\* The locals of the function it leaves are gone.
Raise ==
    /\ faulty
    /\ \E e \in Raisable : exc' = e
    /\ raised_at' = pc
    /\ pc' = "finally"
    /\ consolidation' = NoConsolidation
    /\ UNCHANGED <<cfgVars, tx_commands, periodic_attempts, exportVars, mainVars, walletVars, failed_sites, startVars, osVars, mgrVars, ip, outcome, nodeVars, bulkVars, logVars>>

Outcome_connection_as_generic(e) ==
    CASE e = "none" -> "ok"
      [] e = "rpc" -> "rpc_error"
      [] e = "interrupt" -> "user_interrupted"
      [] OTHER -> "error"

Outcome(e) ==
    CASE e = "none" -> "ok"
      [] e = "conn" -> "connection_error"
      [] e = "rpc" -> "rpc_error"
      [] e = "interrupt" -> "user_interrupted"
      [] OTHER -> "error"

\* the elif of the finally block: "Process stopped but temp dir not cleaned up yet"
FinallyRemovesDir_never == FALSE

FinallyRemovesDir == mgr /\ ~process /\ temp_dir /\ should_cleanup

\* finally: "if self.dashd_manager.process: self.dashd_manager.stop()"
FinallyStop ==
    /\ pc = "finally"
    /\ mgr /\ process
    /\ \E graceful \in BOOLEAN : stop(graceful)
    /\ stop_ret' = "finally"
    /\ outcome' = Outcome(exc)
    /\ pc' = "returned"
    /\ UNCHANGED <<cfgVars, txVars, exportVars, mainVars, walletVars, histVars, startVars, sockets, probes, mgr, launched, dir_created, should_cleanup, atexit_reg, ip,
                   exc, nodeVars, bulkVars, logVars>>

\* finally: the elif branch, shutil.rmtree(temp_dir, ignore_errors=True)
FinallyRmtree ==
    /\ pc = "finally"
    /\ FinallyRemovesDir
    /\ dir_exists' = FALSE
    /\ outcome' = Outcome(exc)
    /\ pc' = "returned"
    /\ UNCHANGED <<cfgVars, txVars, exportVars, mainVars, walletVars, histVars, startVars, osVars, mgr, process, proc_alive, launched, temp_dir, dir_created,
                   should_cleanup, atexit_reg, stop_ret, stop_calls, force_killed, ip,
                   exc, nodeVars, bulkVars, logVars>>

\* finally: neither branch applies
FinallyNothing ==
    /\ pc = "finally"
    /\ ~(mgr /\ process)
    /\ ~FinallyRemovesDir
    /\ outcome' = Outcome(exc)
    /\ pc' = "returned"
    /\ UNCHANGED <<cfgVars, txVars, exportVars, mainVars, walletVars, histVars, startVars, osVars, mgrVars, ip, exc, nodeVars, bulkVars, logVars>>

MIN_BLOCKS == 120    \* main(): min_blocks

\* the interpreter has not exited
NoExit == -1

\* the exit status of an interpreter ended by an exception nothing caught
UNCAUGHT_EXIT == 1

\* whether "except GeneratorError" of main() catches what generate() raised:
\* the RPCError of a rejected command is a generation error, as is the
\* GeneratorError("User interrupted") generate() makes of a KeyboardInterrupt
\* in its try body
CaughtByExceptGeneratorError(e) == e \in {"rpc", "interrupt"}

\* main(): the status its except clauses pass to sys.exit for the exception e
\* that left generate(); 0 when generate() returned
ExitCode(e) ==
    CASE e = "none" -> 0
      [] e = "conn" -> 2
      [] CaughtByExceptGeneratorError(e) -> 4
      [] e = "keyboard" -> 130
      [] OTHER -> UNCAUGHT_EXIT

\* main(): "if args.blocks < min_blocks: ... sys.exit(1)", else the generator
\* is built and generate() called
MainValidate ==
    /\ pc = "main"
    /\ IF target < MIN_BLOCKS
         THEN /\ exit_code' = 1
              /\ pc' = "exited"
         ELSE /\ pc' = "ensure"
              /\ UNCHANGED exit_code
    /\ UNCHANGED <<cfgVars, txVars, exportVars, walletVars, histVars, startVars, osVars, mgrVars, ip, exc,
                   outcome, nodeVars, bulkVars, logVars>>

\* the user interrupts main() before generate() has entered its try
\* statement: "except KeyboardInterrupt: sys.exit(130)"
MainInterrupted ==
    /\ pc = "main"
    /\ faulty
    /\ target >= MIN_BLOCKS
    /\ exc' = "keyboard"
    /\ raised_at' = pc
    /\ exit_code' = ExitCode("keyboard")
    /\ pc' = "exited"
    /\ UNCHANGED <<cfgVars, txVars, exportVars, walletVars, failed_sites, startVars, osVars, mgrVars, ip,
                   outcome, nodeVars, bulkVars, logVars>>

\* the interpreter exits: the handler registered by atexit.register(self.stop)
AtexitStop ==
    /\ pc = "returned"
    /\ atexit_reg
    /\ \E graceful \in BOOLEAN : stop(graceful)
    /\ stop_ret' = "atexit"
    /\ exit_code' = ExitCode(exc)
    /\ pc' = "exited"
    /\ UNCHANGED <<cfgVars, txVars, exportVars, walletVars, histVars, startVars, sockets, probes, mgr, launched, dir_created, should_cleanup, atexit_reg, ip,
                   exc, outcome, nodeVars, bulkVars, logVars>>

\* the interpreter exits and no handler was registered
ExitNoHook ==
    /\ pc = "returned"
    /\ ~atexit_reg
    /\ exit_code' = ExitCode(exc)
    /\ pc' = "exited"
    /\ UNCHANGED <<cfgVars, txVars, exportVars, walletVars, histVars, startVars, osVars, mgrVars, ip, exc, outcome, nodeVars, bulkVars, logVars>>

----------------------------------------------------------------------------
(* Runs of generate() *)

\* target heights of the runs in which nothing fails
Targets ==
    {MIN_BLOCKS, 200, 300, FilterBatch, FilterBatch + 100, FilterBatch + 150,
     2 * FilterBatch + 500, 11 * FilterBatch + 500}

\* target heights main() refuses
RefusedTargets == {MIN_BLOCKS - 1}

\* target heights of the runs in which commands, files and the user may fail
FaultyTargets == {MIN_BLOCKS, 200, 300, FilterBatch + 150}

\* the targets of the runs in which no draw of the bulk loop comes out below
\* 0.01
LongTargets == {FilterBatch + 150, 11 * FilterBatch + 500}

\* a requested port (0: none) and the ports other processes hold, with which
\* start() resolves its ports: all free; the first candidate taken; the second
\* taken; a requested port that is free; a free requested port with its
\* neighbours taken
GoodPortEnvs ==
    { [req |-> 0, taken |-> {}],
      [req |-> 0, taken |-> {FIRST_RPC_PORT}],
      [req |-> 0, taken |-> {FIRST_RPC_PORT + 1}],
      [req |-> FIRST_RPC_PORT + 2, taken |-> {}],
      [req |-> FIRST_RPC_PORT, taken |-> {FIRST_RPC_PORT + 1, FIRST_RPC_PORT + 2}] }

\* those with which it does not: every candidate taken; the requested port
\* taken; no free P2P port
BadPortEnvs ==
    { [req |-> 0, taken |-> FIRST_RPC_PORT..(FIRST_RPC_PORT + MAX_ATTEMPTS - 1)],
      [req |-> FIRST_RPC_PORT, taken |-> {FIRST_RPC_PORT}],
      [req |-> FIRST_RPC_PORT + 2,
       taken |-> (FIRST_RPC_PORT + 3)..(FIRST_RPC_PORT + 2 + MAX_ATTEMPTS)] }

PortEnvs == GoodPortEnvs \cup BadPortEnvs

\* the port environment of the runs in which nothing fails
FreePorts == { [req |-> 0, taken |-> {}] }

RunConfigs ==
    [target : (Targets \ LongTargets) \cup RefusedTargets, keep_temp : {FALSE},
     faulty : {FALSE}, wallet_faults : {FALSE}, existing : {NoOutdir}, draws : {TRUE},
     ports : FreePorts]
    \cup [target : LongTargets, keep_temp : {FALSE}, faulty : {FALSE},
          wallet_faults : {FALSE}, existing : {NoOutdir}, draws : {FALSE},
          ports : FreePorts]
    \cup [target : {MIN_BLOCKS, 200}, keep_temp : {FALSE}, faulty : {FALSE},
          wallet_faults : {FALSE}, existing : ExistingOutdirs, draws : {TRUE},
          ports : FreePorts]
    \cup [target : FaultyTargets \ LongTargets, keep_temp : {FALSE}, faulty : {TRUE},
          wallet_faults : {FALSE}, existing : {NoOutdir}, draws : {TRUE},
          ports : FreePorts]
    \cup [target : FaultyTargets \cap LongTargets, keep_temp : {FALSE}, faulty : {TRUE},
          wallet_faults : {FALSE}, existing : {NoOutdir}, draws : {FALSE},
          ports : FreePorts]
    \cup [target : {MIN_BLOCKS}, keep_temp : {FALSE}, faulty : BOOLEAN,
          wallet_faults : {TRUE}, existing : {NoOutdir}, draws : {TRUE},
          ports : FreePorts]
    \cup [target : {MIN_BLOCKS}, keep_temp : {TRUE}, faulty : {TRUE},
          wallet_faults : {FALSE}, existing : {NoOutdir}, draws : {TRUE},
          ports : FreePorts]
    \cup [target : {MIN_BLOCKS}, keep_temp : BOOLEAN, faulty : {TRUE},
          wallet_faults : {FALSE}, existing : {NoOutdir}, draws : {TRUE},
          ports : BadPortEnvs]

FfpIdle ==
    /\ ffp_pc = "idle"
    /\ ffp_start = 0
    /\ ffp_n = 0
    /\ ffp_result = 0

SchedIdle ==
    /\ sched_pc = "idle"
    /\ sched_current = 0
    /\ sched_target = 0
    /\ sched_result = <<>>

\* the state after Generator.__init__ and WalletSyncGenerator.__init__
RunStart ==
    /\ actual_port = 0
    /\ p2p_port = 0
    /\ launch_port = 0
    /\ ret_port = 0
    /\ elapsed = 0
    /\ polled = FALSE
    /\ observed_exit = FALSE
    /\ post_exit_ops = 0
    /\ wait_result = "none"
    /\ start_error = NoError
    /\ start_calls = 0
    /\ raised_at = "none"
    /\ failed_sites = {}
    /\ signals = 0
    /\ sockets = {}
    /\ probes = 0
    /\ process = FALSE
    /\ proc_alive = FALSE
    /\ launched = 0
    /\ temp_dir = FALSE
    /\ dir_exists = FALSE
    /\ dir_created = FALSE
    /\ should_cleanup = TRUE
    /\ atexit_reg = FALSE
    /\ stop_ret = "none"
    /\ stop_calls = 0
    /\ force_killed = FALSE
    /\ ip = 0
    /\ exc = "none"
    /\ outcome = "running"
    /\ exit_code = NoExit
    /\ output_dir = existing
    /\ tx_commands = 0
    /\ periodic_attempts = <<>>
    /\ consolidation = NoConsolidation
    /\ height = 0
    /\ chain = <<>>
    /\ stats = [blocks_generated |-> 0, transactions_created |-> 0,
                coinbase_rewards |-> 0, utxo_replenishments |-> 0]
    /\ current_height = 0
    /\ batch_boundaries = <<>>
    /\ scheduled = <<>>
    /\ boundary_addr_index = 0
    /\ next_periodic_height = 0
    /\ periodic_counter = 0
    /\ pending = <<>>
    /\ rest_end = 0
    /\ gen_start = 0
    /\ markers = <<>>
    /\ self_sends = 0
    /\ rpc_failures = 0
    /\ reject_msg = NoMsg
    /\ derived = 0
    /\ wallet_addresses = <<>>
    /\ payments = <<>>

Init ==
    /\ SchedIdle
    /\ FfpIdle
    /\ \E c \in RunConfigs :
          /\ target = c.target
          /\ keep_temp = c.keep_temp
          /\ faulty = c.faulty
          /\ wallet_faults = c.wallet_faults
          /\ existing = c.existing
          /\ draws = c.draws
          /\ requested_port = c.ports.req
          /\ taken = c.ports.taken
    /\ caller = "generate"
    /\ mgr = FALSE
    /\ pc = "main"
    /\ RunStart

Next ==
    \/ EnsureDashdRunning \/ StartVerifyOk \/ StartVerifyFail \/ StartPortsOk
    \/ StartPortsFail \/ StartMkdtemp \/ StartPopenOk \/ StartPopenFail
    \/ NodeExitsEarly \/ WaitLoopTest \/ WaitPoll \/ WaitReadyOk \/ WaitCallFail
    \/ WaitSleep \/ WaitReadyFail
    \/ ScriptStep \/ ScriptRejected \/ WalletRejected \/ WalletExcept
    \/ BulkEnter \/ BulkLoopExit \/ BulkMature \/ BulkImmature \/ BulkRest
    \/ BulkNormal \/ MarkersDone \/ MarkerPass \/ MarkerSend \/ MarkerMine
    \/ MarkerSkip \/ PeriodicNotDue \/ PeriodicSend \/ PeriodicMine
    \/ PeriodicRejected \/ SelfSendNotDrawn \/ SelfSend \/ SelfSendRejected
    \/ BulkVerify \/ GenFinal
    \/ ExportHeight \/ ExportOutdir \/ ExportStats \/ ExportSave \/ ExportTerminate
    \/ ExportTerminateInterrupted \/ ExportSleep \/ ExportCopy \/ ExportCleanup
    \/ MainValidate \/ MainInterrupted
    \/ Raise \/ FinallyStop \/ FinallyRmtree \/ FinallyNothing \/ AtexitStop
    \/ ExitNoHook

Spec == Init /\ [][Next]_vars

----------------------------------------------------------------------------
(* Harness of the scheduler: inputs drawn from HeightSamples *)

SchedInit ==
    /\ sched_pc = "call"
    /\ sched_current \in HeightSamples
    /\ sched_target \in HeightSamples
    /\ sched_result = <<>>
    /\ FfpIdle
    /\ target = MIN_BLOCKS
    /\ keep_temp = FALSE
    /\ faulty = FALSE
    /\ wallet_faults = FALSE
    /\ existing = NoOutdir
    /\ draws = FALSE
    /\ caller = "generate"
    /\ requested_port = 0
    /\ taken = {}
    /\ mgr = FALSE
    /\ pc = "idle"
    /\ RunStart

SchedCall ==
    /\ sched_pc = "call"
    /\ sched_result' = calculate_batch_boundaries(sched_current, sched_target)
    /\ sched_pc' = "done"
    /\ UNCHANGED <<sched_current, sched_target, ffpVars, runVars>>

SchedNext == SchedCall

SpecSched == SchedInit /\ [][SchedNext]_vars

----------------------------------------------------------------------------
(* Harness of the port search: inputs drawn from small sets *)

\* the candidates other processes may hold are FIRST_RPC_PORT..FIRST_RPC_PORT+PortSpan
PortSpan == 3

\* largest max_attempts the harness passes
MaxAttemptsSample == 3

FfpInit ==
    /\ SchedIdle
    /\ ffp_pc = "call"
    /\ ffp_start \in FIRST_RPC_PORT..(FIRST_RPC_PORT + 1)
    /\ ffp_n \in 0..MaxAttemptsSample
    /\ ffp_result = 0
    /\ taken \in SUBSET (FIRST_RPC_PORT..(FIRST_RPC_PORT + PortSpan))
    /\ target = MIN_BLOCKS
    /\ keep_temp = FALSE
    /\ faulty = FALSE
    /\ wallet_faults = FALSE
    /\ existing = NoOutdir
    /\ draws = FALSE
    /\ caller = "client"
    /\ requested_port = 0
    /\ mgr = TRUE
    /\ pc = "idle"
    /\ RunStart

\* find_free_port(ffp_start, ffp_n) is called and returns or raises
FfpCall ==
    /\ ffp_pc = "call"
    /\ ffp_result' = find_free_port(ffp_start, ffp_n)
    /\ sockets' = sockets \cup HeldAfterSearch(ffp_start, ffp_n)
    /\ ffp_pc' = IF find_free_port(ffp_start, ffp_n) = NoPort THEN "raised" ELSE "done"
    /\ UNCHANGED <<ffp_start, ffp_n, schedVars, inputVars, histVars, startVars, signals, probes,
                   mgrVars, ctlVars, nodeVars, bulkVars, logVars, walletVars, exportVars, txVars, mainVars>>

FfpNext == FfpCall

SpecPorts == FfpInit /\ [][FfpNext]_vars

----------------------------------------------------------------------------
(* Harness of the manager: a client calls start() once and stop() at any time *)

MgrInit ==
    /\ SchedIdle
    /\ FfpIdle
    /\ target = MIN_BLOCKS
    /\ keep_temp \in BOOLEAN
    /\ faulty = TRUE
    /\ wallet_faults = FALSE
    /\ existing = NoOutdir
    /\ draws = FALSE
    /\ caller = "client"
    /\ \E e \in PortEnvs :
          /\ requested_port = e.req
          /\ taken = e.taken
    /\ mgr = TRUE
    /\ pc = "mgr_idle"
    /\ RunStart

MgrNext ==
    \/ ClientStart \/ ClientStop
    \/ StartVerifyOk \/ StartVerifyFail \/ StartPortsOk \/ StartPortsFail
    \/ StartMkdtemp \/ StartPopenOk \/ StartPopenFail
    \/ NodeExitsEarly \/ WaitLoopTest \/ WaitPoll \/ WaitReadyOk \/ WaitCallFail
    \/ WaitSleep \/ WaitReadyFail

SpecMgr == MgrInit /\ [][MgrNext]_vars

\* the client and the manager are one sequential program: it takes its next
\* step as long as it has one
SpecMgrFair == SpecMgr /\ WF_vars(MgrNext)

SeqToSet(s) == { s[i] : i \in 1..Len(s) }

\* C4: for target > current, every returned height h has current < h < target
C4_BoundariesInsideRange ==
    (sched_pc = "done" /\ sched_target > sched_current) =>
        \A i \in 1..Len(sched_result) :
            sched_current < sched_result[i] /\ sched_result[i] < sched_target

C4_Witness ==
    /\ sched_pc = "done"
    /\ sched_current = FilterBatch - 1
    /\ sched_target = 2 * FilterBatch + 1
    /\ sched_result = <<2 * FilterBatch - 1>>

\* C5: the returned sequence is strictly increasing and consecutive elements
\* differ by exactly the batch size
C5_ConstantSpacing ==
    sched_pc = "done" =>
        \A i \in 1..(Len(sched_result) - 1) :
            sched_result[i + 1] - sched_result[i] = FilterBatch

C5_Witness ==
    /\ sched_pc = "done"
    /\ sched_current = FilterBatch - 1
    /\ Len(sched_result) >= 2

\* the heights one below a positive multiple of the batch size, strictly
\* between current and target
ExpectedBoundaries(cur, tgt) ==
    { m - 1 : m \in { h \in { k * FilterBatch : k \in 1..(tgt \div FilterBatch + 1) } :
                          cur < h - 1 /\ h - 1 < tgt } }

\* C6: the scheduler returns exactly {m - 1 : m a positive multiple of 5000,
\* current < m - 1 < target} in increasing order; nothing when no multiple lies
\* in (current, target]; a current height that is a multiple of 5000 yields no
\* boundary for that multiple
C6_ExactBoundarySet ==
    sched_pc = "done" =>
        /\ SeqToSet(sched_result) = ExpectedBoundaries(sched_current, sched_target)
        /\ \A i \in 1..(Len(sched_result) - 1) : sched_result[i] < sched_result[i + 1]
        /\ (~ \E k \in 1..(sched_target \div FilterBatch + 1) :
                sched_current < k * FilterBatch /\ k * FilterBatch <= sched_target)
              => sched_result = <<>>
        /\ (sched_current % FilterBatch = 0)
              => \A i \in 1..Len(sched_result) : sched_result[i] # sched_current - 1

C6_Witness ==
    /\ sched_pc = "done"
    /\ sched_current = FilterBatch
    /\ sched_target = 3 * FilterBatch
    /\ sched_result = <<2 * FilterBatch - 1, 3 * FilterBatch - 1>>

----------------------------------------------------------------------------
(* Properties of the runs of generate() *)

\* every command of the run so far succeeded and nothing was raised
AllCommandsSucceeded == rpc_failures = 0 /\ exc = "none"

\* C1: for every accepted target height T >= 120, a run in which every command
\* succeeds has chain height T when export begins
C1_HeightEqualsTargetAtExport ==
    (pc = "export_height" /\ AllCommandsSucceeded /\ target >= MIN_BLOCKS)
        => height = target

\* C2: whenever generate() has returned or raised, no node process launched by
\* the run is still running
C2_NoProcessAfterGenerate ==
    pc = "returned" => ~proc_alive

MarkerCount(b) == Cardinality({ j \in 1..Len(markers) : markers[j][1] = b })

\* C7: at the end of bulk generation every scheduled boundary (when there are
\* at most 10) has had exactly one marker payment and has left the pending
\* sequence
C7_EveryBoundaryMarkedOnce ==
    (pc = "bulk_verify" /\ Len(scheduled) <= 10) =>
        /\ \A i \in 1..Len(scheduled) : MarkerCount(scheduled[i]) = 1
        /\ batch_boundaries = <<>>

\* C8: a marker payment for scheduled height h is issued at chain height h
C8_MarkerIssuedAtBoundaryHeight ==
    \A j \in 1..Len(markers) : markers[j][2] = markers[j][1]

\* number of blocks of the chain before its i-th run
RECURSIVE BlocksBefore(_, _)
BlocksBefore(c, i) == IF i <= 1 THEN 0 ELSE BlocksBefore(c, i - 1) + c[i - 1][2]

InMatureWindow(h) == target - 200 < h /\ h <= target - 101
InImmatureWindow(h) == target - 99 < h /\ h <= target

\* C9: every block mined to the test wallet's address has a height in the mature
\* window (target-200, target-101] or in the immature window (target-99, target];
\* every other block is mined to the faucet address
C9_WalletBlocksInsideWindows ==
    \A i \in 1..Len(chain) :
        /\ chain[i][1] \in {WalletAddr, FaucetAddr}
        /\ chain[i][1] = WalletAddr =>
              \A h \in (BlocksBefore(chain, i) + 1)..(BlocksBefore(chain, i) + chain[i][2]) :
                  InMatureWindow(h) \/ InImmatureWindow(h)

\* a finished bulk generation that mined to the wallet in both windows
C9_Witness ==
    /\ pc = "bulk_verify"
    /\ \E i, j \in 1..Len(chain) :
          /\ chain[i][1] = WalletAddr /\ InMatureWindow(BlocksBefore(chain, i) + 1)
          /\ chain[j][1] = WalletAddr /\ InImmatureWindow(BlocksBefore(chain, j) + 1)

\* C10: when stop() returns, no node process of this manager is running, the
\* process handle is cleared, and the working directory has been deleted if and
\* only if it was marked for cleanup
C10_StopPostcondition ==
    [][stop_calls' = stop_calls + 1 =>
          /\ ~proc_alive'
          /\ ~process'
          /\ dir_created => (dir_exists' <=> ~should_cleanup)]_vars

----------------------------------------------------------------------------
(* Properties of the manager used by a client *)

\* C11: stop() is idempotent: a stop() that directly follows another stop(),
\* and a stop() on a manager never started, signals no process and deletes
\* nothing
C11_StopIdempotent ==
    [][(stop_calls' = stop_calls + 1 /\ (stop_ret # "none" \/ start_calls = 0)) =>
          /\ signals' = signals
          /\ force_killed' = force_killed
          /\ proc_alive' = proc_alive
          /\ dir_exists' = dir_exists]_vars

\* three stop() calls around one successful start(): two of them are consecutive
C11_Witness ==
    /\ stop_calls = 3
    /\ launched = 1
    /\ wait_result = "ready"
    /\ signals >= 1
    /\ ~process

\* C12: start() with a missing or non-executable node binary fails before any
\* port is probed, any working directory is created or any process is
\* launched, and nothing is deleted on the failure path
C12_MissingBinaryFailsFirst ==
    start_error.msg = "executable not found" =>
        /\ probes = 0
        /\ sockets = {}
        /\ actual_port = 0
        /\ ~dir_created /\ ~temp_dir /\ ~dir_exists
        /\ launched = 0 /\ ~process
        /\ ~atexit_reg
        /\ signals = 0

\* generate() has ended after start() failed on the executable
C12_Witness ==
    /\ pc = "exited"
    /\ start_error.msg = "executable not found"
    /\ outcome = "connection_error"
    /\ stop_calls = 0

\* C13: whenever start() fails, for whatever reason, at the moment it raises no
\* node process launched by it is running and, with cleanup enabled, no
\* working directory created by it remains
C13_StartFailureCleansUp ==
    [][(start_error = NoError /\ start_error' # NoError) =>
          /\ ~proc_alive'
          /\ (~keep_temp /\ dir_created') => ~dir_exists']_vars

\* C14: when the node does not become ready, start() fails with the timeout
\* error if the 30 s elapsed, and with a different error that carries the
\* output the process wrote if the process exited early
C14_DistinctReadinessErrors ==
    (start_error # NoError /\ wait_result \in {"exited", "timeout"}) =>
        /\ wait_result = "timeout" => start_error = NotReadyError("timeout")
        /\ wait_result = "exited" =>
              /\ start_error.msg # NotReadyError("timeout").msg
              /\ start_error.stderr

\* C15: start() returns success only from a liveness call that succeeded in a
\* loop iteration whose poll did not see the process exited; at that moment
\* the working directory exists, the process handle is set and the returned
\* control port is the port the process was launched with
C15_SuccessOnlyAfterLiveCall ==
    [][(ret_port = 0 /\ ret_port' # 0) =>
          /\ pc = "wait_call" /\ polled /\ ~observed_exit
          /\ wait_result' = "ready"
          /\ start_error' = NoError
          /\ temp_dir' /\ dir_exists'
          /\ process'
          /\ ret_port' = launch_port']_vars

\* start() has returned the second candidate port, the first being taken
C15_Witness ==
    /\ pc = "mgr_idle"
    /\ wait_result = "ready"
    /\ requested_port = 0
    /\ ret_port = FIRST_RPC_PORT + 1
    /\ launch_port = ret_port
    /\ stop_calls = 0
    /\ process /\ dir_exists

\* C16: in the readiness loop the process is polled in every iteration before
\* the liveness call; a poll that finds the process exited ends the loop at
\* once, with no further liveness call or sleep and before the timeout; and
\* the loop always ends
C16_ReadinessLoopFailsFast ==
    /\ [](pc = "wait_call" => polled)
    /\ [](post_exit_ops = 0)
    /\ []((pc = "wait_failed" /\ wait_result = "exited") => elapsed < TimeoutTicks)
    /\ [][(pc = "wait_poll" /\ process /\ ~proc_alive) =>
              (pc' = "wait_failed" /\ wait_result' = "exited" /\ observed_exit')]_vars
    /\ ((pc \in WaitPcs) ~> (pc \notin WaitPcs))

\* the exit of the process was seen by the poll of a later iteration
C16_Witness ==
    /\ pc = "wait_failed"
    /\ wait_result = "exited"
    /\ observed_exit
    /\ elapsed > 1
    /\ post_exit_ops = 0

----------------------------------------------------------------------------
(* Properties of the port search *)

\* the candidates of a call find_free_port(ffp_start, ffp_n)
Candidates == ffp_start..(ffp_start + ffp_n - 1)

\* C17: find_free_port(start, n) returns the smallest port of [start, start+n)
\* that can be bound on loopback, holds no port bound after it returned, and
\* fails with an error exactly when none of the n candidates is free
C17_SmallestFreePort ==
    /\ ffp_pc = "done" =>
          /\ ffp_result \in Candidates
          /\ ffp_result \notin taken
          /\ \A q \in Candidates : q < ffp_result => q \in taken
    /\ ffp_pc = "raised" => Candidates \subseteq taken
    /\ ffp_pc \in {"done", "raised"} => sockets = {}

\* the first two candidates are taken and the third is returned
C17_Witness ==
    /\ ffp_pc = "done"
    /\ ffp_n = 3
    /\ ffp_result = ffp_start + 2
    /\ {ffp_start, ffp_start + 1} \subseteq taken

----------------------------------------------------------------------------
(* Properties of the port resolution of start() *)

\* the free ports among the MAX_ATTEMPTS candidates from start_port on
FreeFrom(start_port) ==
    { q \in start_port..(start_port + MAX_ATTEMPTS - 1) : q \notin taken }

\* the smallest of a set of ports, NoPort for the empty set
Smallest(ports) ==
    IF ports = {} THEN NoPort ELSE CHOOSE q \in ports : \A r \in ports : q <= r

\* the peer port is the first free port above the control port
PeerPortAllocated ==
    (actual_port # NoPort /\ FreeFrom(actual_port + 1) # {}) =>
        /\ p2p_port = Smallest(FreeFrom(actual_port + 1))
        /\ p2p_port # actual_port

\* C18 as stated: once start() has resolved its ports, the control port is the
\* requested port if that port is free, else an auto-allocated free port, and
\* a second (peer) port is allocated
C18_RequestedElseAutoAllocated ==
    probes > 0 =>
        /\ actual_port = IF requested_port # 0 /\ requested_port \notin taken
                           THEN requested_port
                           ELSE Smallest(FreeFrom(FIRST_RPC_PORT))
        /\ PeerPortAllocated

\* C18 amended: the control port is the requested port if one was requested
\* and is free; start() fails, having created nothing, if a port was requested
\* and is not free; the control port is auto-allocated only when none was
\* requested; and a second (peer) port is allocated above the control port
C18_RequestedOrFailElseAuto ==
    probes > 0 =>
        /\ actual_port = IF requested_port # 0
                           THEN (IF requested_port \notin taken
                                   THEN requested_port ELSE NoPort)
                           ELSE Smallest(FreeFrom(FIRST_RPC_PORT))
        /\ (requested_port # 0 /\ requested_port \in taken) =>
              /\ start_error = ConnError("requested port not available")
              /\ ~dir_created /\ launched = 0
        /\ PeerPortAllocated

\* start() has failed because the requested port is taken
C18_Witness ==
    /\ requested_port = FIRST_RPC_PORT
    /\ FIRST_RPC_PORT \in taken
    /\ FreeFrom(FIRST_RPC_PORT) # {}
    /\ probes = 1
    /\ start_error = ConnError("requested port not available")
    /\ actual_port = NoPort

----------------------------------------------------------------------------
(* Properties of the failure handling of generate() *)

\* the positions of the generation phases: verification, wallet set-up and
\* bootstrap, phases 2 to 5 and bulk generation
GenerationPcs ==
    {"script", "wallet_except", "bulk_enter", "bulk_loop", "bulk_rest", "bulk_markers",
     "bulk_marker_mine", "bulk_periodic", "bulk_periodic_mine", "bulk_selfsend",
     "bulk_verify", "gen_final"}

\* C19: a connection error raised by a command of any generation phase, the
\* consolidation, periodic-send and self-payment steps included, aborts the
\* run: no further generation command takes effect, and the run ends with the
\* connection-error outcome after the process is stopped and the directory
\* cleaned up
C19_ConnectionErrorAborts ==
    /\ []((exc = "conn" /\ raised_at \in GenerationPcs) =>
            /\ pc \in {"finally", "returned", "exited"}
            /\ pc # "finally" =>
                  /\ outcome = "connection_error"
                  /\ ~process /\ ~proc_alive
                  /\ (dir_created /\ ~keep_temp) => ~dir_exists)
    /\ [][(exc = "conn" /\ raised_at \in GenerationPcs) =>
              UNCHANGED <<ip, nodeVars, bulkVars, logVars>>]_vars

\* a run ended by a connection error of the self-payment step, in which an
\* RPCError would have been absorbed
C19_Witness ==
    /\ pc = "returned"
    /\ exc = "conn"
    /\ raised_at = "bulk_selfsend"
    /\ outcome = "connection_error"
    /\ stop_ret = "finally"

\* C20: outside readiness polling no command that failed is issued again:
\* after an absorbed failure the step is skipped (the program is never again
\* about to issue a command for a step that failed), every other failure
\* aborts the run, and no marker payment is submitted twice
C20_NoCommandReissued ==
    /\ [](CurrentSite \notin failed_sites)
    /\ [](\A j \in 1..Len(markers) : MarkerCount(markers[j][1]) = 1)
    /\ [][failed_sites' # failed_sites =>
              /\ pc' \notin {"finally", "returned", "exited"}
              /\ UNCHANGED <<nodeVars, stats, markers>>]_vars
    /\ [][(exc' # exc /\ raised_at' \in GenerationPcs) =>
              /\ pc' = "finally"
              /\ UNCHANGED <<ip, nodeVars, bulkVars, stats, markers>>]_vars

\* the payment from the test wallet of phase 5 was rejected, the step was
\* skipped and the run went on into bulk generation
C20_Witness ==
    /\ pc = "bulk_periodic"
    /\ exc = "none"
    /\ \E site \in failed_sites :
          /\ site[1] = "script"
          /\ Script[site[2]].tx
          /\ Script[site[2]].cmd = "spend_from_wallet"

----------------------------------------------------------------------------
(* Properties of the handling of rejected commands *)

\* the handler of a wallet set-up rejection goes on without an exception, at
\* a command cmd of phase ph
GoesOnAt(ph, cmd) ==
    /\ exc' = "none"
    /\ pc' = "script"
    /\ Script[ip'].ph = ph
    /\ Script[ip'].cmd = cmd

\* C21: during wallet set-up the faucet loadwallet rejected with "already
\* loaded" continues (no wallet is created), rejected with "not found" or "does
\* not exist" leads to creating the wallet, the test wallet's createwallet
\* rejected with "already exists" or "already loaded" continues; any other
\* rejection of these calls aborts the run before any address is generated or
\* block mined
C21_BenignWalletRejections ==
    /\ [][(pc = "wallet_except" /\ exc' # "interrupt") =>
            LET c == Script[ip]
                m == reject_msg
                loaded == c.cmd = "loadwallet" /\ "already loaded" \in m
                missing == /\ c.cmd = "loadwallet" /\ "already loaded" \notin m
                           /\ ("not found" \in m \/ "does not exist" \in m)
                exists == /\ c.cmd = "createwallet"
                          /\ ("already exists" \in m \/ "already loaded" \in m)
            IN  /\ loaded => GoesOnAt("load_addresses", "createwallet")
                /\ missing => GoesOnAt("verify", "createwallet")
                /\ exists => GoesOnAt("load_addresses", "dumphdinfo")
                /\ ~(loaded \/ missing \/ exists) =>
                      /\ exc' = "rpc"
                      /\ pc' = "finally"
                      /\ height' = 0 /\ wallet_addresses' = <<>> /\ derived' = 0]_vars
    /\ []((exc = "rpc" /\ raised_at = "wallet_except") =>
            /\ pc \in {"finally", "returned", "exited"}
            /\ height = 0 /\ wallet_addresses = <<>> /\ derived = 0)

\* a run that ended well after its loadwallet was rejected and absorbed
C21_Witness ==
    /\ pc = "exited"
    /\ outcome = "ok"
    /\ Len(wallet_addresses) = NUM_ADDRESSES
    /\ \E site \in failed_sites :
          site[1] = "script" /\ Script[site[2]].cmd = "loadwallet"

\* the kind of step a site belongs to
SiteKind(site) ==
    CASE site[1] = "script" ->
           (LET c == Script[site[2]] IN
              IF WalletSetupCmd(c) THEN "wallet_setup"
              ELSE IF c.cmd = "spend_from_wallet" THEN "spend_from_wallet"
              ELSE IF c.ph = "phase5" /\ c.catch > 0 THEN "consolidation"
              ELSE "other")
      [] site[1] = "periodic" -> "periodic"
      [] site[1] = "self" -> "self_send"
      [] OTHER -> "other"

\* a rejection that propagated has ended the generation: nothing further is
\* issued and the run ends with the error
RejectionAborts ==
    /\ []((exc = "rpc") =>
            /\ pc \in {"finally", "returned", "exited"}
            /\ pc # "finally" => outcome = "rpc_error")
    /\ [][(exc = "rpc") => UNCHANGED <<ip, nodeVars, bulkVars, logVars, payments>>]_vars

OnlySkippedSteps ==
    /\ exc = "none"
    /\ failed_sites # {}
    /\ \A site \in failed_sites : SiteKind(site) \in {"consolidation", "periodic"}

\* C23: a rejected command inside the consolidation step or inside a periodic
\* send does not abort the run: the step is skipped (nothing further of it is
\* issued), the later phases still execute, and the run finishes at the target
\* height
C23_SkippedStepRunCompletes ==
    /\ [][(\E site \in failed_sites' \ failed_sites :
                SiteKind(site) \in {"consolidation", "periodic"}) =>
              /\ exc' = "none"
              /\ pc' \in GenerationPcs
              /\ UNCHANGED <<nodeVars, payments, stats>>
              /\ CurrentSite' \notin failed_sites']_vars
    /\ []((pc = "exited" /\ OnlySkippedSteps) =>
            /\ outcome = "ok"
            /\ ip > Len(Script)
            /\ height = target)

----------------------------------------------------------------------------
(* Properties of main() *)

\* the exit status the run should end with, by how it ended: a refused
\* target is a configuration error, a user interrupt is one wherever it came
\* (no step of the engine raises an insufficient-funds error)
ExpectedExitCode ==
    CASE target < MIN_BLOCKS -> 1
      [] exc = "none" -> 0
      [] exc = "conn" -> 2
      [] exc \in {"interrupt", "keyboard"} -> 130
      [] OTHER -> 4

\* C24: the exit code is determined by the outcome: 0 on success, 1 on a
\* configuration error, 2 on a node-connection error, 4 on any other
\* generation error, and 130 when the user interrupts the run, an interrupt
\* received while generation is in progress included
C24_ExitCodeByOutcome ==
    pc = "exited" => exit_code = ExpectedExitCode

----------------------------------------------------------------------------
(* Properties of the export *)

\* _export_data has done its file operations
Exported == pc = "export_cleanup" \/ outcome = "ok"

\* what an export into no directory leaves
FreshExport == export_data(NoOutdir, TRUE)

\* C25: after an export the output directory holds only files of the current
\* run, whatever it held before: the same as an export into no directory; and
\* exporting once more into the result changes nothing
C25_ExportReplacesOutdir ==
    Exported =>
        /\ output_dir.exists
        /\ \A f \in output_dir.files : f.run = ThisRun
        /\ output_dir = FreshExport
        /\ export_data(output_dir, TRUE) = output_dir

\* a run has exported into a directory that held an earlier export and
\* files no export writes
C25_Witness ==
    /\ pc = "exited"
    /\ outcome = "ok"
    /\ existing.exists
    /\ WalletFiles(EarlierRun) \subseteq existing.files
    /\ Leftovers \subseteq existing.files
    /\ output_dir # existing

----------------------------------------------------------------------------
(* Properties of the address index *)

\* the next step is a getnewaddress of the pre-generation loop
PreGeneration == pc = "script" /\ OnTestWallet(Script[ip])

\* the address the test wallet derived in iteration i of the pre-generation
\* loop: derived - Len(wallet_addresses) is what it had derived before the loop
PreGenerated(i) == NodeAddress("wallet", derived - Len(wallet_addresses) + i)

\* C26: wallet_addresses is written by the pre-generation loop and by no
\* other step, and every payment issued for index i has gone to the address
\* pre-generated at position i, which is the one the index still holds
C26_AddressIndexFrozen ==
    /\ [][wallet_addresses' # wallet_addresses => PreGeneration]_vars
    /\ [](\A k \in 1..Len(payments) :
             /\ payments[k].idx \in 0..(NUM_ADDRESSES - 1)
             /\ Len(wallet_addresses) = NUM_ADDRESSES
             /\ payments[k].addr = PreGenerated(payments[k].idx)
             /\ payments[k].addr = wallet_addresses[payments[k].idx + 1])

\* a run has paid to indices of the phases and of bulk generation and has
\* exported
C26_Witness ==
    /\ pc = "exited"
    /\ outcome = "ok"
    /\ \E k \in 1..Len(payments) : payments[k].h >= FilterBatch - 1
    /\ \E k \in 1..Len(payments) : payments[k].idx = 0

----------------------------------------------------------------------------
(* Properties of the sequence of commands *)

\* the node answers every command, and the same way in every run
FaithfulNode == ~faulty /\ ~wallet_faults

\* what the commands issued so far have left: the position in the phases,
\* the blocks mined and their addresses, the payments to the test wallet and
\* the number of self-payments of the faucet
CommandLog == <<ip, chain, payments, self_sends>>

\* a step of the program that issues a command
CommandStep == Next /\ CommandLog' # CommandLog

\* a step of the program that goes on without one
SilentStep == Next /\ CommandLog' = CommandLog /\ pc' # pc

\* C27: two runs with the same configuration against nodes that answer alike
\* issue the same commands: at no point of such a run can the program either
\* issue a command or go on without issuing it
C27_CommandSequenceDetermined ==
    FaithfulNode => ~(ENABLED CommandStep /\ ENABLED SilentStep)

----------------------------------------------------------------------------
(* Properties of the life cycle of the node process *)

\* the state of the node process as the manager holds it: Idle until start()
\* is called, Starting inside start(), Ready from the return of start() while
\* the handle is held, Stopping when the handle is given up and the process
\* still runs, Stopped when start() has raised, when the handle is given up
\* and the process is gone, and when generate() has returned
Lifecycle ==
    CASE start_calls = 0 -> "Idle"
      [] start_error # NoError -> "Stopped"
      [] pc \in {"returned", "exited"} ->
            IF proc_alive THEN "Stopping" ELSE "Stopped"
      [] wait_result # "ready" -> "Starting"
      [] process -> "Ready"
      [] proc_alive -> "Stopping"
      [] OTHER -> "Stopped"

\* the transitions of the life cycle; stop() and the terminate-and-wait of the
\* export are single steps, so that a process that exits in time passes
\* Stopping inside the step
LifecycleEdges ==
    { <<"Idle", "Starting">>, <<"Starting", "Ready">>, <<"Starting", "Stopped">>,
      <<"Ready", "Stopping">>, <<"Ready", "Stopped">>, <<"Stopping", "Stopped">> }

----------------------------------------------------------------------------
(* Properties of the order of the steps of a run *)

\* the positions inside DashdManager.start()
StartPcs == {"start_verify", "start_ports", "start_mkdtemp", "start_popen"} \cup WaitPcs

\* the positions inside _export_data
ExportPcs ==
    {"export_height", "export_outdir", "export_stats", "export_save",
     "export_terminate", "export_sleep", "export_copy", "export_cleanup"}

\* the number of the step a command of phases 1 to 5 belongs to
StepOfPhase(ph) ==
    CASE ph = "verify" -> 2
      [] ph = "load_addresses" -> 3
      [] ph = "utxo_pool" -> 4
      [] ph \in {"generate_blocks", "phase2"} -> 5
      [] ph = "phase3" -> 6
      [] ph = "phase4" -> 7
      [] ph = "phase5" -> 8

LastStep == 10
Cleanup == LastStep + 1

\* the step the run is in: 0 before the node is started, 1 node start,
\* 2 verification, 3 address pre-generation, 4 bootstrap funding, 5 to 8
\* phases 2 to 5, 9 phase 6, 10 export, and Cleanup from the finally block on
Step ==
    CASE pc \in {"main", "ensure"} -> 0
      [] pc \in StartPcs -> 1
      [] pc \in {"script", "wallet_except"} -> StepOfPhase(Script[ip].ph)
      [] pc \in GenerationPcs \ {"script", "wallet_except"} -> 9
      [] pc \in ExportPcs -> LastStep
      [] OTHER -> Cleanup

\* the run has failed: an exception left the try body, or main() refused the
\* configuration
RunFailed == exc # "none" \/ (pc = "exited" /\ exit_code # 0)

\* C29: the steps run in the order node start, verification, address
\* pre-generation, bootstrap funding, phases 2 to 6, export: a run only goes
\* from a step to the next one or to cleanup, so no step runs twice; it
\* leaves a step other than the export for cleanup only by a failure; and
\* after a failure nothing but cleanup runs
C29_StepsInOrder ==
    /\ [][Step' \in {Step, Step + 1, Cleanup}]_vars
    /\ [][(Step' = Cleanup /\ Step < LastStep) => RunFailed']_vars
    /\ [](RunFailed => Step = Cleanup)

\* a run that failed in phase 3 and exported nothing
C29_Witness ==
    /\ pc = "exited"
    /\ exc = "rpc"
    /\ raised_at = "script"
    /\ Script[ip].ph = "phase3"
    /\ height > 0
    /\ output_dir = existing

----------------------------------------------------------------------------
(* Properties of the payments at the gap-limit boundary *)

\* the indices phase 3 pays to, in its order
GapBoundary == <<27, 28, 29>>

\* the first index beyond the wallet's initial discovery window
GapLimit == GapBoundary[Len(GapBoundary)] + 1

AtGapBoundary(p) == p.idx \in {GapBoundary[k] : k \in 1..Len(GapBoundary)}

\* the payments issued so far to the indices of the gap-limit boundary
GapPayments == SelectSeq(payments, AtGapBoundary)

InPhase3 == pc = "script" /\ Script[ip].ph = "phase3"

\* C30: phase 3 pays to the indices 27, 28 and 29, in this order and once
\* each, and to nothing else; blocks are mined after each of the three before
\* the next payment of the run is issued; and a payment to an index of 30 or
\* more is issued only when the payment to index 29 is in a block
C30_GapBoundaryPayments ==
    /\ [](\A k \in 1..Len(GapPayments) :
              k <= Len(GapBoundary) /\ GapPayments[k].idx = GapBoundary[k])
    /\ [][(InPhase3 /\ payments' # payments) =>
              /\ Len(payments') = Len(payments) + 1
              /\ AtGapBoundary(payments'[Len(payments')])]_vars
    /\ []((Step > StepOfPhase("phase3") /\ Step <= LastStep) =>
              /\ Len(GapPayments) = Len(GapBoundary)
              /\ \A k \in 1..Len(GapPayments) : height > GapPayments[k].h)
    /\ [](\A k \in 1..(Len(payments) - 1) :
              AtGapBoundary(payments[k]) => payments[k + 1].h > payments[k].h)
    /\ [](\A j \in 1..Len(payments) :
              payments[j].idx >= GapLimit =>
                  \E k \in 1..(j - 1) :
                      /\ payments[k].idx = GapBoundary[Len(GapBoundary)]
                      /\ payments[k].h < payments[j].h)

\* a finished run that has paid beyond the gap limit in phase 4 and in bulk
\* generation
C30_Witness ==
    /\ pc = "exited"
    /\ outcome = "ok"
    /\ Len(GapPayments) = Len(GapBoundary)
    /\ \E j \in 1..Len(payments) : payments[j].idx = GapLimit + 2
    /\ \E j \in 1..Len(payments) : payments[j].idx >= FIRST_BOUNDARY_INDEX

----------------------------------------------------------------------------
(* Properties of address pre-generation *)

\* _load_addresses has returned
PreGenerationDone ==
    \/ pc \in {"script", "wallet_except"} /\ StepOfPhase(Script[ip].ph) > StepOfPhase("load_addresses")
    \/ pc \in (GenerationPcs \ {"script", "wallet_except"}) \cup ExportPcs
    \/ outcome = "ok"

\* the address at derivation index i of the test wallet
DerivationAddress(i) == NodeAddress("wallet", i)

\* C31: after address pre-generation wallet_addresses has the keys 0..49 and
\* entry i is the address at derivation index i of the test wallet, also when
\* createwallet was answered with "already exists"
C31_EntriesAreDerivationIndices ==
    PreGenerationDone =>
        /\ Len(wallet_addresses) = NUM_ADDRESSES
        /\ \A i \in 0..(NUM_ADDRESSES - 1) : wallet_addresses[i + 1] = DerivationAddress(i)

----------------------------------------------------------------------------
(* Properties of the statistics *)

\* C32: at every point of a run stats["transactions_created"] is the number of
\* transaction-creating commands of phases 2 to 6 that the node accepted, and
\* a step in which a command is rejected leaves the counter as it is
C32_TxCounterCountsCommands ==
    /\ [](stats.transactions_created = tx_commands)
    /\ [][rpc_failures' # rpc_failures => stats' = stats]_vars

-----------------------------------------------------------------------------
(* C33: periodic sends of bulk generation *)

\* the k-th entry (k = 0, 1, ...) of a rotating list
Rotating(list, k) == list[(k % Len(list)) + 1]

\* a periodic attempt whose send or mining call the node rejected
PeriodicFailures == {site \in failed_sites : site[1] = "periodic"}

\* C33: the k-th periodic attempt (k = 0, 1, ...) is made with the k-th entry
\* (mod 15) of the index list and the k-th entry (mod 15) of the amount list,
\* whether or not earlier attempts succeeded, and the node's height grows by
\* at least 1000 blocks between two consecutive attempts.
C33_PeriodicRotation ==
    /\ \A j \in 1..Len(periodic_attempts) :
          /\ periodic_attempts[j].idx = Rotating(periodic_addresses, j - 1)
          /\ periodic_attempts[j].amt = Rotating(periodic_amounts, j - 1)
    /\ \A j \in 1..(Len(periodic_attempts) - 1) :
          periodic_attempts[j + 1].h >= periodic_attempts[j].h + PERIODIC_INTERVAL

\* an attempt made after a rejected one
C33_Witness ==
    /\ PeriodicFailures # {}
    /\ \E site \in PeriodicFailures : Len(periodic_attempts) > site[2] + 1

-----------------------------------------------------------------------------
(* C34: coinbase blocks of the test wallet *)

\* the heights of the blocks the chain holds for the test wallet
WalletBlockHeights ==
    UNION {(BlocksBefore(chain, i) + 1)..(BlocksBefore(chain, i) + chain[i][2]) :
             i \in {j \in 1..Len(chain) : chain[j][1][1] = "wallet"}}

MatureWalletBlocks == Cardinality({h \in WalletBlockHeights : InMatureWindow(h)})
ImmatureWalletBlocks == Cardinality({h \in WalletBlockHeights : InImmatureWindow(h)})

\* the bulk loop of a generation that started below target - 200 has exited
BulkCompletedFromBelow ==
    /\ pc = "bulk_verify"
    /\ gen_start < mature_coinbase_start

\* C34: when a bulk generation that started below target-200 completes, between
\* 1 and 5 blocks of the mature window and between 1 and 5 blocks of the
\* immature window are mined to the test wallet, and the coinbase-rewards
\* counter equals the number of blocks mined to the test wallet.
C34_WalletBlocksInBothWindows ==
    BulkCompletedFromBelow =>
        /\ MatureWalletBlocks \in 1..WALLET_BLOCKS
        /\ ImmatureWalletBlocks \in 1..WALLET_BLOCKS
        /\ stats.coinbase_rewards = Cardinality(WalletBlockHeights)

-----------------------------------------------------------------------------
(* C35: the consolidation and the payment from the test wallet in phase 5 *)

\* this step broadcasts the consolidation transaction
Broadcast == consolidation.sent = NoTx /\ consolidation'.sent # NoTx

\* the listed outputs named by ids are two of the smallest amounts
TwoSmallest(utxos, ids) ==
    /\ Cardinality(ids) = 2
    /\ ids \subseteq 1..Len(utxos)
    /\ \A i \in ids : \A j \in (1..Len(utxos)) \ ids : utxos[i].amount <= utxos[j].amount

Sum(utxos, ids) ==
    LET i == CHOOSE k \in ids : TRUE IN utxos[i].amount + utxos[CHOOSE k \in ids \ {i} : TRUE].amount

\* the next command is the payment from the test wallet
SpendIssued == pc = "script" /\ Script[ip].cmd = "spend_from_wallet"

\* a funding payment of phase 5 to the test wallet is in a block
FundingMined ==
    \E k \in 1..Len(payments) :
        /\ payments[k].amt = Phase5Script[1].amt
        /\ payments[k].idx = Phase5Script[1].idx
        /\ payments[k].h < height

\* C35: the consolidation is broadcast only if the test wallet listed at least
\* two outputs, its two smallest together exceed the fee and signing reported
\* the transaction complete; its inputs are those two outputs and its single
\* output is their sum minus the fee; the payment from the test wallet is
\* issued only after a funding payment to it has been mined.
C35_ConsolidationGuarded ==
    /\ [][Broadcast =>
            LET utxos == consolidation.wallet_utxos
                ids == {consolidation'.sent.inputs[k] :
                          k \in 1..Len(consolidation'.sent.inputs)} IN
              /\ Len(utxos) >= 2
              /\ consolidation.complete
              /\ Len(consolidation'.sent.inputs) = 2
              /\ TwoSmallest(utxos, ids)
              /\ Sum(utxos, ids) > FEE
              /\ consolidation'.sent.output = Sum(utxos, ids) - FEE]_vars
    /\ [](SpendIssued => FundingMined)

\* a consolidation broadcast from three listed outputs of which the first is
\* not among the two smallest
C35_Witness ==
    /\ consolidation.sent # NoTx
    /\ Len(consolidation.wallet_utxos) = 3
    /\ consolidation.sent.inputs = <<2, 3>>

-----------------------------------------------------------------------------
(* C36: the order of the steps of the export *)

\* the wallet summaries of this run are in the output directory
WalletsSaved == WalletFiles(ThisRun) \subseteq output_dir.files

\* the node's data directory is in the output directory
DatadirCopied == RegtestFiles(ThisRun) \subseteq output_dir.files

\* the statistics are collected and saved with the node process running
StatsWhileRunning ==
    [](pc \in {"export_stats", "export_save"} => process /\ proc_alive)

\* the steps that save, copy and delete come in this order
SaveCopyDeleteInOrder ==
    /\ [][~DatadirCopied /\ DatadirCopied' => WalletsSaved /\ ~process /\ dir_exists]_vars
    /\ [][(pc \in ExportPcs /\ dir_exists /\ ~dir_exists') => DatadirCopied]_vars

\* the node process has ended when its data directory is copied
CopyAfterProcessEnded ==
    [][~DatadirCopied /\ DatadirCopied' => ~proc_alive]_vars

\* C36: during export the wallet statistics are collected and saved while the
\* node process runs, then the node process is terminated, then its data
\* directory is copied to the output, and only after the copy is the working
\* directory deleted.
C36_ExportStepsInOrder ==
    /\ StatsWhileRunning
    /\ SaveCopyDeleteInOrder
    /\ CopyAfterProcessEnded

-----------------------------------------------------------------------------
(* C37: termination of the bulk-generation loop *)

\* the positions inside "while current_height < target"
BulkLoopPcs ==
    {"bulk_loop", "bulk_rest", "bulk_markers", "bulk_marker_mine", "bulk_periodic",
     "bulk_periodic_mine", "bulk_selfsend"}

\* how far a position is from the end of its iteration
Rank ==
    CASE pc = "bulk_markers" -> 5 + 2 * Len(pending)
      [] pc = "bulk_marker_mine" -> 4 + 2 * Len(pending)
      [] pc = "bulk_periodic" -> 3
      [] pc = "bulk_periodic_mine" -> 2
      [] pc \in {"bulk_selfsend", "bulk_rest"} -> 1
      [] OTHER -> 0

\* a number that is never negative inside the loop and that every step inside
\* the loop makes smaller: the blocks still to mine, then the rest of the
\* iteration
Variant == (target - height) * (2 * Len(scheduled) + 6) + Rank

\* C37: the bulk-generation loop terminates: every iteration mines at least one
\* block, the tracked height equals the node's height at the start of every
\* iteration, it never exceeds target, and it equals target when the loop exits.
C37_BulkLoopTerminates ==
    /\ [][(pc \in BulkLoopPcs /\ pc' \in BulkLoopPcs) =>
             Variant' < Variant /\ Variant' >= 0]_vars
    /\ [][(pc = "bulk_loop" /\ pc' \in BulkLoopPcs) => height' >= height + 1]_vars
    /\ [](pc = "bulk_loop" => current_height = height)
    /\ [](pc \in BulkLoopPcs => current_height <= target)
    /\ [][(pc = "bulk_loop" /\ pc' = "bulk_verify") => current_height = target]_vars

\* the loop has exited at target after an iteration that followed a rejected
\* periodic send
C37_Witness ==
    /\ pc = "bulk_verify"
    /\ \E site \in failed_sites : site[1] = "periodic"
    /\ current_height = target

-----------------------------------------------------------------------------
(* C38: address indices of the payments to the test wallet *)

\* the payments to one of the indices the boundary markers use
MarkerIndexPayments == {k \in 1..Len(payments) : payments[k].idx >= 40}

\* at a boundary that was passed, with ten markers issued
BoundaryAfterTenMarkers ==
    /\ pc = "bulk_markers"
    /\ Len(markers) = 10
    /\ pending # <<>>
    /\ Head(pending) <= current_height

\* C38: every payment to the test wallet goes to an index in 0..49; the
\* boundary markers use 40, 41, ... in the order they are issued, each index
\* once, and no other send uses these indices; once 10 markers are issued a
\* further boundary is consumed without a payment and without an error.
C38_MarkerIndices ==
    /\ [](\A k \in 1..Len(payments) : payments[k].idx \in 0..49)
    /\ [](\A j \in 1..Len(markers) : markers[j][3] = 40 + (j - 1))
    /\ [](/\ Cardinality(MarkerIndexPayments) = Len(markers)
          /\ \A j \in 1..Len(markers) :
                \E k \in MarkerIndexPayments :
                    /\ payments[k].idx = markers[j][3]
                    /\ payments[k].amt = MARKER_AMOUNT
                    /\ payments[k].h = markers[j][2])
    /\ [][(BoundaryAfterTenMarkers /\ exc' = exc) =>
             /\ pc' = "bulk_markers"
             /\ pending' = Tail(pending)
             /\ Len(batch_boundaries') = Len(batch_boundaries) - 1
             /\ payments' = payments
             /\ markers' = markers]_vars

\* the eleventh boundary of a run has been consumed after ten markers
C38_Witness ==
    /\ Len(markers) = 10
    /\ Len(scheduled) = 11
    /\ batch_boundaries = <<>>
    /\ pc = "bulk_periodic"

-----------------------------------------------------------------------------
(* C39: the blocks mined by bootstrap and by phases 2 to 5 *)

\* the next command is the first one of phase ph
AtStartOf(ph) ==
    /\ pc = "script"
    /\ Script[ip].ph = ph
    /\ Script[ip - 1].ph # ph

\* a command of phase 5 was rejected and the rejection absorbed
Phase5Rejection ==
    \E site \in failed_sites : site[1] = "script" /\ Script[site[2]].ph = "phase5"

-----------------------------------------------------------------------------
(* C40: runs with --keep-temp *)

\* no step of a run with --keep-temp deletes the working directory
KeepTempKeepsDirectory == [][(keep_temp /\ dir_exists) => dir_exists']_vars

\* when such a run is over, the node process it launched has ended
KeepTempEndsProcess == [](keep_temp /\ pc \in {"returned", "exited"} => ~proc_alive)

\* C40: with --keep-temp no path of a run (stop, export, startup failure,
\* command failure, user interrupt) deletes the working directory, and the node
\* process is terminated on every such path.
C40_KeepTempFrame ==
    /\ KeepTempKeepsDirectory
    /\ KeepTempEndsProcess

====
